---- MODULE Spec2Model ----
(***************************************************************************)
(* PGD Comparison (SAP vs Infor): the reconciliation helpers of            *)
(* utils_pgd.py and the page run of pages/PO_Splitter.py.                  *)
(*                                                                         *)
(* A table (pandas DataFrame) is a record [cols, rows]: cols the ordered   *)
(* column names, rows the sequence of rows, each row a function from the   *)
(* column names to cell values.  A cell value is a record [k, n, s]:       *)
(*   k = "str"   text, s its characters (one-character strings)            *)
(*   k = "int"   Python int n                                              *)
(*   k = "float" float, n its value in thousandths                         *)
(*   k = "date"  Timestamp, n its day number                               *)
(*   k = "nan" / "na" / "nat"   the missing values NaN, pd.NA, NaT         *)
(***************************************************************************)
EXTENDS Integers, Sequences, FiniteSets, TLC

VARIABLES pc, csv_dfs, i, data_list, signals, infor_all, sap_df, df_infor,
          df_merged, df_filled, df_final, report, df_export, status,
          df_sap2, df_infor2,
          temp_file, pgd_file, temp_df, pgd_df, so_target, before, match_mask, errors,
          session_state, widgets, submitted, df_view

\* build_report's converted tables (utils_pgd.py 280-281).
reportVars == <<df_sap2, df_infor2>>

\* The Temporary LPD Check page (pages/Temporary_LPD_Check.py).
tempVars == <<temp_file, pgd_file, temp_df, pgd_df, so_target, before, match_mask, errors>>

\* The filter form of the comparison page (pages/PO_Splitter.py 84-145).
filterVars == <<session_state, widgets, submitted, df_view>>

addedVars == <<reportVars, tempVars, filterVars>>

vars == <<pc, csv_dfs, i, data_list, signals, infor_all, sap_df, df_infor,
          df_merged, df_filled, df_final, report, df_export, status, addedVars>>

(***************************************************************************)
(* Cell values                                                             *)
(***************************************************************************)
NaN == [k |-> "nan", n |-> 0, s |-> <<>>]
NA == [k |-> "na", n |-> 0, s |-> <<>>]
NaT == [k |-> "nat", n |-> 0, s |-> <<>>]
Str(chars) == [k |-> "str", n |-> 0, s |-> chars]
IntV(v) == [k |-> "int", n |-> v, s |-> <<>>]
Flt(milli) == [k |-> "float", n |-> milli, s |-> <<>>]
Date(day) == [k |-> "date", n |-> day, s |-> <<>>]

\* pandas isna(): NaN, pd.NA and NaT are the missing values.
IsNull(v) == v.k \in {"nan", "na", "nat"}

Range(f) == {f[x] : x \in DOMAIN f}

(***************************************************************************)
(* Text: Python str operations on character sequences                      *)
(***************************************************************************)
DigitChars == <<"0", "1", "2", "3", "4", "5", "6", "7", "8", "9">>
LowerChars == <<"a", "b", "c", "d", "e", "f", "g", "h", "i", "j", "k", "l", "m",
                "n", "o", "p", "q", "r", "s", "t", "u", "v", "w", "x", "y", "z">>
UpperChars == <<"A", "B", "C", "D", "E", "F", "G", "H", "I", "J", "K", "L", "M",
                "N", "O", "P", "Q", "R", "S", "T", "U", "V", "W", "X", "Y", "Z">>

IsDigit(c) == \E d \in DOMAIN DigitChars : DigitChars[d] = c
DigitVal(c) == (CHOOSE d \in DOMAIN DigitChars : DigitChars[d] = c) - 1

RECURSIVE Digits(_)
Digits(v) == IF v < 10 THEN <<DigitChars[v + 1]>>
             ELSE Append(Digits(v \div 10), DigitChars[(v % 10) + 1])

\* str(int)
StrOfInt(v) == IF v < 0 THEN <<"-">> \o Digits(-v) ELSE Digits(v)

RECURSIVE DropTrailingZeros(_)
DropTrailingZeros(t) ==
    IF Len(t) > 1 /\ t[Len(t)] = "0" THEN DropTrailingZeros(SubSeq(t, 1, Len(t) - 1))
    ELSE t

\* str(float) of a value given in thousandths: 161000 is "161.0", 161700 "161.7".
StrOfFloat(milli) ==
    LET a == IF milli < 0 THEN -milli ELSE milli
        frac == a % 1000
        frac3 == <<DigitChars[(frac \div 100) + 1], DigitChars[((frac \div 10) % 10) + 1],
                   DigitChars[(frac % 10) + 1]>>
    IN (IF milli < 0 THEN <<"-">> ELSE <<>>) \o Digits(a \div 1000) \o <<".">>
         \o DropTrailingZeros(frac3)

\* Series.astype(str) of one cell.  A Timestamp never reaches a text column
\* in the tables drawn here, so its rendering is left undefined.
AsStr(v) ==
    CASE v.k = "str" -> v.s
      [] v.k = "int" -> StrOfInt(v.n)
      [] v.k = "float" -> StrOfFloat(v.n)
      [] v.k = "nan" -> <<"n", "a", "n">>
      [] v.k = "na" -> <<"<", "N", "A", ">">>
      [] v.k = "nat" -> <<"N", "a", "T">>

IsSpace(c) == c = " "

RECURSIVE LStrip(_)
LStrip(t) == IF t # <<>> /\ IsSpace(t[1]) THEN LStrip(Tail(t)) ELSE t

RECURSIVE RStrip(_)
RStrip(t) == IF t # <<>> /\ IsSpace(t[Len(t)]) THEN RStrip(SubSeq(t, 1, Len(t) - 1)) ELSE t

\* str.strip()
Strip(t) == RStrip(LStrip(t))

UpperChar(c) == IF \E j \in DOMAIN LowerChars : LowerChars[j] = c
                THEN UpperChars[CHOOSE j \in DOMAIN LowerChars : LowerChars[j] = c]
                ELSE c

\* str.upper()
Upper(t) == [j \in DOMAIN t |-> UpperChar(t[j])]

\* str.replace(".0", ""): every non-overlapping occurrence, left to right.
RECURSIVE ReplaceDotZero(_)
ReplaceDotZero(t) ==
    IF t = <<>> THEN <<>>
    ELSE IF Len(t) >= 2 /\ t[1] = "." /\ t[2] = "0" THEN ReplaceDotZero(SubSeq(t, 3, Len(t)))
    ELSE <<t[1]>> \o ReplaceDotZero(Tail(t))

RECURSIVE Zeros(_)
Zeros(cnt) == IF cnt <= 0 THEN <<>> ELSE <<"0">> \o Zeros(cnt - 1)

\* str.zfill(width): zeros go after a leading sign.
ZFill(t, width) ==
    IF Len(t) >= width THEN t
    ELSE IF t # <<>> /\ t[1] \in {"+", "-"}
         THEN <<t[1]>> \o Zeros(width - Len(t)) \o Tail(t)
    ELSE Zeros(width - Len(t)) \o t

RECURSIVE DigitsValue(_)
DigitsValue(t) == IF t = <<>> THEN 0 ELSE 10 * DigitsValue(SubSeq(t, 1, Len(t) - 1)) + DigitVal(t[Len(t)])

AllDigits(t) == \A j \in DOMAIN t : IsDigit(t[j])

\* float(text) for the decimal forms the drawn cells use: surrounding blanks,
\* an optional sign, digits with at most one point (up to three decimals),
\* and the text nan.  The result is [ok, nan, milli]; ok = FALSE is ValueError.
ParseFloat(t) ==
    LET u == Strip(t)
        neg == u # <<>> /\ u[1] = "-"
        body == IF u # <<>> /\ u[1] \in {"+", "-"} THEN Tail(u) ELSE u
        dots == {j \in DOMAIN body : body[j] = "."}
        dot == IF dots = {} THEN Len(body) + 1 ELSE CHOOSE j \in dots : TRUE
        whole == SubSeq(body, 1, dot - 1)
        fracAll == SubSeq(body, dot + 1, Len(body))
        frac == SubSeq(fracAll \o <<"0", "0", "0">>, 1, 3)
        wellFormed == /\ Cardinality(dots) <= 1
                      /\ AllDigits(whole) /\ AllDigits(fracAll)
                      /\ Len(whole) + Len(fracAll) >= 1
        mag == 1000 * DigitsValue(whole) + DigitsValue(frac)
    IN  IF Upper(body) = <<"N", "A", "N">> THEN [ok |-> TRUE, nan |-> TRUE, milli |-> 0]
        ELSE IF wellFormed THEN [ok |-> TRUE, nan |-> FALSE, milli |-> IF neg THEN -mag ELSE mag]
        ELSE [ok |-> FALSE, nan |-> FALSE, milli |-> 0]

(***************************************************************************)
(* Tables                                                                  *)
(***************************************************************************)
\* pd.DataFrame(): no columns, no rows.
EmptyDF == [cols |-> <<>>, rows |-> <<>>]

HasCol(df, c) == c \in Range(df.cols)

\* DataFrame.empty: some axis has length 0.
IsEmpty(df) == Len(df.cols) = 0 \/ Len(df.rows) = 0

\* The columns of seq that pass the test, in order ([c for c in seq if ...]).
RECURSIVE SelectSeq2(_, _)
SelectSeq2(seq, keep) ==
    IF seq = <<>> THEN <<>>
    ELSE (IF seq[1] \in keep THEN <<seq[1]>> ELSE <<>>) \o SelectSeq2(Tail(seq), keep)

\* Character order (ASCII) of the characters cells are written with.
AsciiChars == <<" ", "+", "-", ".", "/">> \o DigitChars \o <<"<", ">">> \o UpperChars \o LowerChars
CharCode(c) == CHOOSE j \in DOMAIN AsciiChars : AsciiChars[j] = c

RECURSIVE LessText(_, _)
LessText(a, b) ==
    IF b = <<>> THEN FALSE
    ELSE IF a = <<>> THEN TRUE
    ELSE IF a[1] = b[1] THEN LessText(Tail(a), Tail(b))
    ELSE CharCode(a[1]) < CharCode(b[1])

\* Order of group keys: numbers by value, before text in character order.
LessKey(a, b) ==
    IF a.k = "int" /\ b.k = "int" THEN a.n < b.n
    ELSE IF a.k = "int" THEN TRUE
    ELSE IF b.k = "int" THEN FALSE
    ELSE LessText(a.s, b.s)

RECURSIVE SortKeys(_)
SortKeys(keys) ==
    IF keys = {} THEN <<>>
    ELSE LET m == CHOOSE x \in keys : \A y \in keys \ {x} : LessKey(x, y)
         IN <<m>> \o SortKeys(keys \ {m})

(***************************************************************************)
(* load_infor_from_many_csv (utils_pgd.py 96-113)                          *)
(***************************************************************************)
required_cols == <<"PO Statistical Delivery Date (PSDD)", "Customer Request Date (CRD)",
                   "Line Aggregator">>

\* all(col in df.columns for col in required_cols)
RequiredOk_any(df) == \E c \in Range(required_cols) : HasCol(df, c)
RequiredOk(df) == \A c \in Range(required_cols) : HasCol(df, c)

RECURSIVE ConcatCols(_)
ConcatCols(list) ==
    IF list = <<>> THEN <<>>
    ELSE LET head == ConcatCols(SubSeq(list, 1, Len(list) - 1))
             last == list[Len(list)]
         IN head \o SelectSeq2(last.cols, Range(last.cols) \ Range(head))

RECURSIVE ConcatRows(_, _)
ConcatRows(list, cols) ==
    IF list = <<>> THEN <<>>
    ELSE LET df == list[1]
         IN [r \in DOMAIN df.rows |->
                [c \in cols |-> IF HasCol(df, c) THEN df.rows[r][c] ELSE NaN]]
            \o ConcatRows(Tail(list), cols)

\* pd.concat(data_list, ignore_index=True): the union of the columns in order
\* of first appearance, the rows in list order, absent cells NaN.
Concat_reversed(list) ==
    [cols |-> ConcatCols(list),
     rows |-> ConcatRows([r \in DOMAIN list |-> list[Len(list) + 1 - r]], Range(ConcatCols(list)))]
Concat(list) == [cols |-> ConcatCols(list), rows |-> ConcatRows(list, Range(ConcatCols(list)))]

(***************************************************************************)
(* process_infor (utils_pgd.py 117-150)                                    *)
(***************************************************************************)
selected_columns ==
    <<"Order #", "Order Status", "Model Name", "Article Number", "Gps Customer Number",
      "Country/Region", "Customer Request Date (CRD)", "Plan Date",
      "PO Statistical Delivery Date (PSDD)", "First Production Date",
      "Last Production Date", "PODD", "Production Lead Time", "Class Code",
      "Delay - Confirmation", "Delay - PO Del Update", "Quantity">>

\* missing_cols = [col for col in selected_columns if col not in df_all.columns]
missing_cols(df_all) == SelectSeq2(selected_columns, Range(selected_columns) \ Range(df_all.cols))

\* The rows of a group, in input order.
GroupRows(df, key) == SelectSeq(df.rows, LAMBDA row : row["Order #"] = key)

\* GroupBy.first(): the first non-null value of the column in the group.
First_row(rows, c) == rows[1][c]
First(rows, c) ==
    LET nonnull == SelectSeq(rows, LAMBDA row : ~IsNull(row[c]))
    IN IF nonnull = <<>> THEN NaN ELSE nonnull[1][c]

\* Value of a numeric cell in thousandths.
Milli(v) == IF v.k = "int" THEN 1000 * v.n ELSE v.n

RECURSIVE SumMilli(_, _)
SumMilli(rows, c) ==
    IF rows = <<>> THEN 0
    ELSE (IF IsNull(rows[1][c]) THEN 0 ELSE Milli(rows[1][c])) + SumMilli(Tail(rows), c)

\* GroupBy.sum(): NaN cells are skipped; an int64 column sums to ints, a
\* column holding NaN or floats is float64.
Sum_first(df, rows, c) == First(rows, c)
Sum(df, rows, c) ==
    IF \A r \in DOMAIN df.rows : df.rows[r][c].k = "int"
    THEN IntV(SumMilli(rows, c) \div 1000)
    ELSE Flt(SumMilli(rows, c))

\* df_all[selected_columns].groupby('Order #', as_index=False).agg({...}):
\* one row per distinct non-null key, keys sorted.
Aggregate(df_all) ==
    LET keys == SortKeys({df_all.rows[r]["Order #"] : r \in DOMAIN df_all.rows} \ {NaN, NA, NaT})
    IN [cols |-> selected_columns,
        rows |-> [g \in DOMAIN keys |->
                    [c \in Range(selected_columns) |->
                        IF c = "Order #" THEN keys[g]
                        ELSE IF c = "Quantity" THEN Sum(df_all, GroupRows(df_all, keys[g]), c)
                        ELSE First(GroupRows(df_all, keys[g]), c)]]]

(***************************************************************************)
(* convert_date_columns, load_sap (utils_pgd.py 48-51, 77-92)              *)
(***************************************************************************)
DATE_COLUMNS_PREF ==
    <<"Document Date", "FPD", "LPD", "CRD", "PSDD", "FCR Date", "PODD", "PD", "PO Date",
      "Actual PGI", "Infor FPD", "Infor LPD", "Infor CRD", "Infor PSDD", "Infor PODD",
      "Infor PD">>

\* pd.to_datetime(cell, errors='coerce') of a Timestamp, a missing value or text.
ToDatetimeCell(v) ==
    IF v.k = "date" THEN v
    ELSE IF v.k = "str" /\ Len(Strip(v.s)) = 10 /\ Strip(v.s)[5] = "-" /\ Strip(v.s)[8] = "-"
              /\ AllDigits(SubSeq(Strip(v.s), 1, 4)) /\ AllDigits(SubSeq(Strip(v.s), 6, 7))
              /\ AllDigits(SubSeq(Strip(v.s), 9, 10))
              /\ DigitsValue(SubSeq(Strip(v.s), 6, 7)) \in 1..12
              /\ DigitsValue(SubSeq(Strip(v.s), 9, 10)) \in 1..31
         THEN Date(10000 * DigitsValue(SubSeq(Strip(v.s), 1, 4))
                   + 100 * DigitsValue(SubSeq(Strip(v.s), 6, 7))
                   + DigitsValue(SubSeq(Strip(v.s), 9, 10)))
         ELSE NaT

\* Lines 79-81: every known date column the table has is coerced.
convert_date_columns(df) ==
    [cols |-> df.cols,
     rows |-> [r \in DOMAIN df.rows |->
                 [c \in Range(df.cols) |->
                     IF c \in Range(DATE_COLUMNS_PREF) THEN ToDatetimeCell(df.rows[r][c])
                     ELSE df.rows[r][c]]]]

\* df.rename(columns={old: new})
RenameCol(df, old, new) ==
    [cols |-> [j \in DOMAIN df.cols |-> IF df.cols[j] = old THEN new ELSE df.cols[j]],
     rows |-> [r \in DOMAIN df.rows |->
                 [c \in (Range(df.cols) \ {old}) \cup {new} |->
                     IF c = new THEN df.rows[r][old] ELSE df.rows[r][c]]]]

\* .astype(str).str.strip()
StripText(v) == Str(Strip(AsStr(v)))

\* Lines 87-92
load_sap(sap) ==
    LET renamed == IF HasCol(sap, "Quanity") /\ ~HasCol(sap, "Quantity")
                   THEN RenameCol(sap, "Quanity", "Quantity") ELSE sap
        stripped == [cols |-> renamed.cols,
                     rows |-> [r \in DOMAIN renamed.rows |->
                                 [c \in Range(renamed.cols) |->
                                     IF c = "PO No.(Full)" THEN StripText(renamed.rows[r][c])
                                     ELSE renamed.rows[r][c]]]]
    IN convert_date_columns(stripped)

(***************************************************************************)
(* merge_sap_infor (utils_pgd.py 153-160)                                  *)
(***************************************************************************)
ZFillWidth == 10

\* df[col] = f(df[col]) on an existing column.
MapCol(df, col, F(_)) ==
    [cols |-> df.cols,
     rows |-> [r \in DOMAIN df.rows |->
                 [c \in DOMAIN df.rows[r] |-> IF c = col THEN F(df.rows[r][c]) ELSE df.rows[r][c]]]]

\* df[col] = values: an existing column keeps its place, a new one goes last.
SetCol(df, col, F(_)) ==
    [cols |-> IF HasCol(df, col) THEN df.cols ELSE Append(df.cols, col),
     rows |-> [r \in DOMAIN df.rows |->
                 [c \in Range(df.cols) \cup {col} |-> IF c = col THEN F(df.rows[r]) ELSE df.rows[r][c]]]]

\* .astype(str).str.zfill(10)
PadKey(v) == Str(ZFill(AsStr(v), ZFillWidth))

PadKeyCol(df, col) == IF HasCol(df, col) THEN MapCol(df, col, PadKey) ELSE df

\* The right rows whose key equals the left row's key, in right order.
Matches(sapRow, inf) ==
    SelectSeq(inf.rows, LAMBDA infRow : infRow["Order #"] = sapRow["PO No.(Full)"])

\* One left row of the left join: joined to every match, or to NaN cells.
JoinRow(sapRow, inf) ==
    LET m == Matches(sapRow, inf)
        joined(infRow) == [c \in DOMAIN sapRow \cup Range(inf.cols) |->
                             IF c \in DOMAIN sapRow THEN sapRow[c] ELSE infRow[c]]
        alone == [c \in DOMAIN sapRow \cup Range(inf.cols) |->
                     IF c \in DOMAIN sapRow THEN sapRow[c] ELSE NaN]
    IN IF m = <<>> THEN <<alone>> ELSE [g \in DOMAIN m |-> joined(m[g])]

RECURSIVE JoinRows(_, _)
JoinRows(sapRows, inf) ==
    IF sapRows = <<>> THEN <<>>
    ELSE JoinRow(sapRows[1], inf) \o JoinRows(Tail(sapRows), inf)

\* sap.merge(inf, how='left', left_on='PO No.(Full)', right_on='Order #') of
\* tables with no column name in common: left order is kept.
merge_sap_infor(df_sap, df_inf) ==
    LET sap == PadKeyCol(df_sap, "PO No.(Full)")
        inf == PadKeyCol(df_inf, "Order #")
    IN [cols |-> sap.cols \o inf.cols, rows |-> JoinRows(sap.rows, inf)]

(***************************************************************************)
(* fill_missing_dates (utils_pgd.py 163-176)                               *)
(***************************************************************************)
\* A Timestamp is its date as the number yyyymmdd, which orders as dates do.
\* Text dddd-dd-dd with a month 01-12 and a day 01-31 is a date text.
IsDateText(t) ==
    /\ Len(t) = 10 /\ t[5] = "-" /\ t[8] = "-"
    /\ AllDigits(SubSeq(t, 1, 4)) /\ AllDigits(SubSeq(t, 6, 7)) /\ AllDigits(SubSeq(t, 9, 10))
    /\ DigitsValue(SubSeq(t, 6, 7)) \in 1..12
    /\ DigitsValue(SubSeq(t, 9, 10)) \in 1..31

\* pd.to_datetime(cell, errors='coerce') of a Timestamp, a missing value or
\* text: ISO date text parses, the other text drawn here is coerced to NaT.
ToDatetime(v) ==
    CASE v.k = "date" -> v
      [] IsNull(v) -> NaT
      [] v.k = "str" ->
            IF IsDateText(Strip(v.s))
            THEN Date(10000 * DigitsValue(SubSeq(Strip(v.s), 1, 4))
                      + 100 * DigitsValue(SubSeq(Strip(v.s), 6, 7))
                      + DigitsValue(SubSeq(Strip(v.s), 9, 10)))
            ELSE NaT

\* .astype(str).str.strip().str.upper()
NormText(v) == Str(Upper(Strip(AsStr(v))))

NaNCell(row) == NaN
NaTCell(row) == NaT

\* Line 165: out['Order Status Infor'] = out.get(...).astype(str).str.strip()
\* .str.upper(); the empty default Series leaves an absent column all NaN.
FillStatus_kept(df) ==
    IF HasCol(df, "Order Status Infor") THEN df ELSE SetCol(df, "Order Status Infor", NaNCell)
FillStatus(df) ==
    IF HasCol(df, "Order Status Infor") THEN MapCol(df, "Order Status Infor", NormText)
    ELSE SetCol(df, "Order Status Infor", NaNCell)

FillDateCols == <<"LPD", "FPD", "CRD", "PD", "PSDD", "PODD">>

\* Lines 166-169 for one column: created holding NaT if absent, then coerced.
CoerceDateCol(df, col) ==
    IF HasCol(df, col) THEN MapCol(df, col, ToDatetime) ELSE SetCol(df, col, NaTCell)

RECURSIVE CoerceDateCols(_, _)
CoerceDateCols(df, cols) ==
    IF cols = <<>> THEN df
    ELSE CoerceDateCols(CoerceDateCol(df, cols[1]), Tail(cols))

\* Line 170: out['Order Status Infor'].eq('OPEN')
mask_open_all(row) == TRUE
mask_open(row) == row["Order Status Infor"] = Str(<<"O", "P", "E", "N">>)

\* Line 171: out[['CRD','PD']].min(axis=1); missing operands are skipped.
min_dates_crd(row) == row["CRD"]
min_dates(row) ==
    IF IsNull(row["CRD"]) THEN row["PD"]
    ELSE IF IsNull(row["PD"]) THEN row["CRD"]
    ELSE IF row["PD"].n < row["CRD"].n THEN row["PD"] ELSE row["CRD"]

\* Lines 172-175 on one row.
FillRow(row) ==
    [c \in DOMAIN row |->
        IF mask_open(row) /\ IsNull(row[c]) /\ c \in {"LPD", "FPD"} THEN min_dates(row)
        ELSE IF mask_open(row) /\ IsNull(row[c]) /\ c \in {"PSDD", "PODD"} THEN row["CRD"]
        ELSE row[c]]

fill_missing_dates(df) ==
    LET out == CoerceDateCols(FillStatus(df), FillDateCols)
    IN [cols |-> out.cols, rows |-> [r \in DOMAIN out.rows |-> FillRow(out.rows[r])]]

(***************************************************************************)
(* clean_and_compare (utils_pgd.py 179-247)                                *)
(***************************************************************************)
numeric_cols == <<"Quantity", "Infor Quantity", "Production Lead Time", "Infor Lead time",
                  "Article Lead time">>

\* pd.to_numeric(cell, errors="coerce") of a number, a missing value or text.
ToNumeric(v) ==
    CASE v.k = "int" -> Flt(1000 * v.n)
      [] v.k = "float" -> v
      [] IsNull(v) -> NaN
      [] v.k = "str" ->
            IF ParseFloat(v.s).ok /\ ~ParseFloat(v.s).nan THEN Flt(ParseFloat(v.s).milli) ELSE NaN

\* round(2) of a value in thousandths (a tie goes to the even hundredth).
Round2(milli) ==
    LET q == milli \div 10
        r == milli % 10
    IN IF r < 5 THEN 10 * q
       ELSE IF r > 5 THEN 10 * (q + 1)
       ELSE IF q % 2 = 0 THEN 10 * q ELSE 10 * (q + 1)

\* Line 185: pd.to_numeric(...).fillna(0).round(2)
NumClean_nofill(v) == IF IsNull(ToNumeric(v)) THEN NaN ELSE Flt(Round2(ToNumeric(v).n))
NumClean(v) == IF IsNull(ToNumeric(v)) THEN Flt(0) ELSE Flt(Round2(ToNumeric(v).n))

\* Lines 188-192, keyed by the integer each key is the decimal text of.
code_mapping ==
       161 :> <<"0", "1", "-", "0", "1", "6", "1">>
    @@ 84 :> <<"0", "3", "-", "0", "0", "8", "4">>
    @@ 68 :> <<"0", "2", "-", "0", "0", "6", "8">>
    @@ 64 :> <<"0", "4", "-", "0", "0", "6", "4">>
    @@ 62 :> <<"0", "2", "-", "0", "0", "6", "2">>
    @@ 61 :> <<"0", "1", "-", "0", "0", "6", "1">>
    @@ 51 :> <<"0", "3", "-", "0", "0", "5", "1">>
    @@ 46 :> <<"0", "3", "-", "0", "0", "4", "6">>
    @@ 7 :> <<"0", "2", "-", "0", "0", "0", "7">>
    @@ 3 :> <<"0", "3", "-", "0", "0", "0", "3">>
    @@ 2 :> <<"0", "1", "-", "0", "0", "0", "2">>
    @@ 1 :> <<"0", "1", "-", "0", "0", "0", "1">>
    @@ 4 :> <<"0", "4", "-", "0", "0", "0", "4">>
    @@ 8 :> <<"0", "2", "-", "0", "0", "0", "8">>
    @@ 10 :> <<"0", "4", "-", "0", "0", "1", "0">>
    @@ 49 :> <<"0", "3", "-", "0", "0", "4", "9">>
    @@ 90 :> <<"0", "4", "-", "0", "0", "9", "0">>
    @@ 63 :> <<"0", "3", "-", "0", "0", "6", "3">>

\* int(): truncation toward zero.
Trunc(milli) == IF milli >= 0 THEN milli \div 1000 ELSE -((-milli) \div 1000)

\* float(x) of a cell: [ok, nan, milli]; ok = FALSE is ValueError or TypeError.
FloatOf(x) ==
    CASE x.k = "str" -> ParseFloat(x.s)
      [] x.k = "int" -> [ok |-> TRUE, nan |-> FALSE, milli |-> 1000 * x.n]
      [] x.k = "float" -> [ok |-> TRUE, nan |-> FALSE, milli |-> x.n]
      [] x.k = "nan" -> [ok |-> TRUE, nan |-> TRUE, milli |-> 0]
      [] OTHER -> [ok |-> FALSE, nan |-> FALSE, milli |-> 0]

\* Lines 193-197: code_mapping.get(str(int(float(x))), x); int(nan) raises
\* ValueError, float(pd.NA) TypeError, and both return x.
map_code_safely_exact(x) ==
    IF FloatOf(x).ok /\ ~FloatOf(x).nan /\ FloatOf(x).milli % 1000 = 0
       /\ Trunc(FloatOf(x).milli) \in DOMAIN code_mapping
    THEN Str(code_mapping[Trunc(FloatOf(x).milli)])
    ELSE x
map_code_safely(x) ==
    IF FloatOf(x).ok /\ ~FloatOf(x).nan /\ Trunc(FloatOf(x).milli) \in DOMAIN code_mapping
    THEN Str(code_mapping[Trunc(FloatOf(x).milli)])
    ELSE x

\* .replace(['--','N/A','NULL'], pd.NA)
ReplaceSentinels(v) ==
    IF v.k = "str" /\ v.s \in {<<"-", "-">>, <<"N", "/", "A">>, <<"N", "U", "L", "L">>}
    THEN NA ELSE v

\* Lines 199-206
RemapDelay(v) == map_code_safely(ReplaceSentinels(v))

infor_delay_cols == <<"Infor Delay/Early - Confirmation CRD", "Infor Delay - PO PSDD Update">>

string_cols ==
    <<"Model Name", "Infor Model Name", "Article No", "Infor Article No",
      "Classification Code", "Infor Classification Code",
      "Ship-to Country", "Infor Ship-to Country",
      "Ship-to-Sort1", "Infor GPS Country",
      "Delay/Early - Confirmation CRD", "Infor Delay/Early - Confirmation CRD",
      "Delay - PO PSDD Update", "Infor Delay - PO PSDD Update">>

dot_zero_cols == <<"Ship-to-Sort1", "Infor GPS Country">>

\* Lines 221, 223: .astype(str).str.replace(".0", "", regex=False)
StripDotZero(v) == Str(ReplaceDotZero(AsStr(v)))

\* for col in cols: if col in df.columns: df[col] = f(df[col])
MapCols(df, cols, F(_)) ==
    [cols |-> df.cols,
     rows |-> [r \in DOMAIN df.rows |->
                 [c \in DOMAIN df.rows[r] |->
                     IF c \in Range(cols) THEN F(df.rows[r][c]) ELSE df.rows[r][c]]]]

\* Lines 183-223: the cleaning, before the comparison.
Normalize(df) ==
    MapCols(MapCols(MapCols(MapCols(df, numeric_cols, NumClean),
                            infor_delay_cols, RemapDelay),
                    string_cols, NormText),
            dot_zero_cols, StripDotZero)

\* df[c1] == df[c2] on one row: a missing value equals nothing.
CellEq_nullsEqual(a, b) ==
    IF a.k \in {"int", "float"} /\ b.k \in {"int", "float"} THEN Milli(a) = Milli(b) ELSE a = b
CellEq(a, b) ==
    /\ ~IsNull(a) /\ ~IsNull(b)
    /\ IF a.k \in {"int", "float"} /\ b.k \in {"int", "float"} THEN Milli(a) = Milli(b) ELSE a = b

ResultTrue == Str(<<"T", "R", "U", "E">>)
ResultFalse == Str(<<"F", "A", "L", "S", "E">>)
ColumnMissing == Str(<<"C", "O", "L", "U", "M", "N", " ", "M", "I", "S", "S", "I", "N", "G">>)

\* Lines 226-229, the value for one row.
safe_result_either(df, c1, c2, row) ==
    IF HasCol(df, c1) \/ HasCol(df, c2)
    THEN (IF HasCol(df, c1) /\ HasCol(df, c2) /\ CellEq(row[c1], row[c2])
          THEN ResultTrue ELSE ResultFalse)
    ELSE ColumnMissing
safe_result(df, c1, c2, row) ==
    IF HasCol(df, c1) /\ HasCol(df, c2)
    THEN (IF CellEq(row[c1], row[c2]) THEN ResultTrue ELSE ResultFalse)
    ELSE ColumnMissing

\* Lines 231-245: the result column and the pair it compares, in order.
result_pairs ==
    << <<"Result_Quantity", "Quantity", "Infor Quantity">>,
       <<"Result_Model Name", "Model Name", "Infor Model Name">>,
       <<"Result_Article No", "Article No", "Infor Article No">>,
       <<"Result_Classification Code", "Classification Code", "Infor Classification Code">>,
       <<"Result_Delay_CRD", "Delay/Early - Confirmation CRD", "Infor Delay/Early - Confirmation CRD">>,
       <<"Result_Delay_PSDD", "Delay - PO PSDD Update", "Infor Delay - PO PSDD Update">>,
       <<"Result_Lead Time", "Article Lead time", "Infor Lead time">>,
       <<"Result_Country", "Ship-to Country", "Infor Ship-to Country">>,
       <<"Result_Sort1", "Ship-to-Sort1", "Infor GPS Country">>,
       <<"Result_FPD", "FPD", "Infor FPD">>,
       <<"Result_LPD", "LPD", "Infor LPD">>,
       <<"Result_CRD", "CRD", "Infor CRD">>,
       <<"Result_PSDD", "PSDD", "Infor PSDD">>,
       <<"Result_PODD", "PODD", "Infor PODD">>,
       <<"Result_PD", "PD", "Infor PD">> >>

RECURSIVE AddResults(_, _)
AddResults(df, pairs) ==
    IF pairs = <<>> THEN df
    ELSE AddResults(
            [cols |-> IF HasCol(df, pairs[1][1]) THEN df.cols ELSE Append(df.cols, pairs[1][1]),
             rows |-> [r \in DOMAIN df.rows |->
                         [c \in Range(df.cols) \cup {pairs[1][1]} |->
                             IF c = pairs[1][1]
                             THEN safe_result(df, pairs[1][2], pairs[1][3], df.rows[r])
                             ELSE df.rows[r][c]]]],
            Tail(pairs))

clean_and_compare(df_in) == AddResults(Normalize(df_in), result_pairs)

(***************************************************************************)
(* reorder_columns, _blank_delay_columns (utils_pgd.py 251-273, 289-297)   *)
(***************************************************************************)
DESIRED_ORDER ==
    <<"Client No", "Site", "Brand FTY Name", "SO", "Order Type",
      "Order Type Description", "PO No.(Full)", "Order Status Infor",
      "PO No.(Short)", "Merchandise Category 2", "Quantity",
      "Infor Quantity", "Result_Quantity", "Model Name", "Infor Model Name",
      "Result_Model Name", "Article No", "Infor Article No",
      "Result_Article No", "SAP Material", "Pattern Code(Up.No.)",
      "Model No", "Outsole Mold", "Gender", "Category 1", "Category 2",
      "Category 3", "Unit Price", "Classification Code",
      "Infor Classification Code", "Result_Classification Code", "DRC",
      "Delay/Early - Confirmation PD", "Delay/Early - Confirmation CRD",
      "Infor Delay/Early - Confirmation CRD", "Result_Delay_CRD",
      "Delay - PO PSDD Update", "Infor Delay - PO PSDD Update",
      "Result_Delay_PSDD", "Delay - PO PD Update", "MDP", "PDP", "SDP",
      "Article Lead time", "Infor Lead time", "Result_Lead Time",
      "Cust Ord No", "Ship-to-Sort1", "Infor GPS Country", "Result_Sort1",
      "Ship-to Country", "Infor Ship-to Country", "Result_Country",
      "Ship to Name", "Document Date", "FPD", "Infor FPD", "Result_FPD",
      "LPD", "Infor LPD", "Result_LPD", "CRD", "Infor CRD", "Result_CRD",
      "PSDD", "Infor PSDD", "Result_PSDD", "FCR Date", "PODD", "Infor PODD",
      "Result_PODD", "PD", "Infor PD", "Result_PD", "PO Date", "Actual PGI",
      "Segment", "S&P LPD", "Currency", "Customer PO item">>

reorder_columns_existing(df, desired_order) ==
    [cols |-> SelectSeq2(desired_order, Range(df.cols)),
     rows |-> [r \in DOMAIN df.rows |->
                 [c \in Range(SelectSeq2(desired_order, Range(df.cols))) |-> df.rows[r][c]]]]
reorder_columns(df, desired_order) ==
    LET existing == SelectSeq2(desired_order, Range(df.cols))
        tail == SelectSeq2(df.cols, Range(df.cols) \ Range(existing))
    IN [cols |-> existing \o tail, rows |-> df.rows]

DELAY_EMPTY_COLUMNS ==
    <<"Delay/Early - Confirmation CRD", "Infor Delay/Early - Confirmation CRD",
      "Result_Delay_CRD", "Delay - PO PSDD Update", "Infor Delay - PO PSDD Update">>

\* Lines 293-296: missing values, "NaN", "NAN", "NULL", "--", "0" and the
\* number 0 become the empty text.
BlankCell_withFalse(v) ==
    IF IsNull(v) \/ v = ResultFalse THEN Str(<<>>) ELSE v
BlankCell(v) ==
    IF \/ IsNull(v)
       \/ (v.k = "str" /\ v.s \in {<<"N", "a", "N">>, <<"N", "A", "N">>, <<"N", "U", "L", "L">>,
                                   <<"-", "-">>, <<"0">>})
       \/ (v.k \in {"int", "float"} /\ v.n = 0)
    THEN Str(<<>>) ELSE v

blank_delay_columns(df) == MapCols(df, DELAY_EMPTY_COLUMNS, BlankCell)

(***************************************************************************)
(* The comparison page run (pages/PO_Splitter.py 59-82, 273-276) with      *)
(* load_infor_from_many_csv, build_report and process_infor as it calls    *)
(* them.  pc is the position of the run.                                   *)
(***************************************************************************)
MaxCsv == 2
MaxCsvRows == 1

InforCsvCols == selected_columns \o <<"Line Aggregator">>

InforRow(cols, order, qty, model) ==
    [c \in cols |-> IF c = "Order #" THEN order
                    ELSE IF c = "Quantity" THEN qty
                    ELSE IF c = "Model Name" THEN model
                    ELSE NaN]

\* Rows of an uploaded Infor CSV: an order number, its quantity and model.
InforRowsOf(cols) ==
    {InforRow(Range(cols), order, qm[1], qm[2]) :
        order \in {Str(<<"7">>), Str(<<"0", "7">>)},
        qm \in {<<IntV(1), Str(<<"A">>)>>, <<IntV(2), NaN>>}}

SeqsUpTo(S, len) == UNION {[1..m -> S] : m \in 0..len}

WithoutCol(cols, c) == SelectSeq2(cols, Range(cols) \ {c})

\* The uploaded Infor CSVs: complete ones, one without Line Aggregator
\* (the loader skips it) and ones without Quantity (process_infor rejects).
InforCsvTables ==
    {[cols |-> InforCsvCols, rows |-> rows] : rows \in SeqsUpTo(InforRowsOf(InforCsvCols), MaxCsvRows)}
    \cup {[cols |-> WithoutCol(InforCsvCols, "Line Aggregator"),
           rows |-> <<InforRow(Range(WithoutCol(InforCsvCols, "Line Aggregator")),
                               Str(<<"7">>), IntV(1), Str(<<"A">>))>>]}
    \cup {[cols |-> WithoutCol(InforCsvCols, "Quantity"),
           rows |-> <<InforRow(Range(WithoutCol(InforCsvCols, "Quantity")),
                               Str(<<"7">>), NaN, Str(<<"A">>))>>]}

SapCols == <<"PO No.(Full)", "Quantity">>
SapRow(po, qty) == [c \in Range(SapCols) |-> IF c = "PO No.(Full)" THEN po ELSE qty]
SapTables == {[cols |-> SapCols, rows |-> <<>>],
              [cols |-> SapCols, rows |-> <<SapRow(Str(<<"7">>), IntV(3))>>]}

Status(state, label) == [state |-> state, label |-> label, offered |-> {}]

\* The value of a table variable nothing has been assigned to.
Unused == [cols |-> <<"(unassigned)">>, rows |-> <<>>]

\* The variables of the parts of the program a run does not enter.
AddedIdle ==
    /\ df_sap2 = Unused /\ df_infor2 = Unused
    /\ temp_file = Unused /\ pgd_file = Unused /\ temp_df = Unused /\ pgd_df = Unused
    /\ so_target = {} /\ before = <<>> /\ match_mask = <<>> /\ errors = <<>>
    /\ session_state = <<>> /\ widgets = <<>> /\ submitted = FALSE /\ df_view = Unused

Init ==
    /\ pc = "load"
    /\ AddedIdle
    /\ csv_dfs \in UNION {[1..m -> InforCsvTables] : m \in 1..MaxCsv}
    /\ sap_df \in SapTables
    /\ i = 1
    /\ data_list = <<>>
    /\ signals = <<>>
    /\ infor_all = Unused
    /\ df_infor = Unused
    /\ report = Unused
    /\ status = Status("running", "Membaca & menggabungkan file...")
    /\ df_merged = Unused /\ df_filled = Unused /\ df_final = Unused /\ df_export = Unused

\* utils_pgd.py 104-107: the i-th table has the mandatory columns.
LoadInforAccept ==
    /\ pc = "load" /\ i <= Len(csv_dfs)
    /\ RequiredOk(csv_dfs[i])
    /\ data_list' = Append(data_list, csv_dfs[i])
    /\ signals' = Append(signals, [kind |-> "info", idx |-> i])
    /\ i' = i + 1
    /\ UNCHANGED <<pc, csv_dfs, infor_all, sap_df, df_infor, df_merged, df_filled,
                   df_final, report, df_export, status>>
    /\ UNCHANGED addedVars

\* utils_pgd.py 108-110: it lacks one; the table is skipped with a warning.
LoadInforSkip ==
    /\ pc = "load" /\ i <= Len(csv_dfs)
    /\ ~RequiredOk(csv_dfs[i])
    /\ signals' = Append(signals, [kind |-> "warn", idx |-> i])
    /\ i' = i + 1
    /\ UNCHANGED <<pc, csv_dfs, data_list, infor_all, sap_df, df_infor, df_merged,
                   df_filled, df_final, report, df_export, status>>
    /\ UNCHANGED addedVars

\* utils_pgd.py 111-113
LoadInforReturn ==
    /\ pc = "load" /\ i > Len(csv_dfs)
    /\ infor_all' = IF data_list = <<>> THEN EmptyDF ELSE Concat(data_list)
    /\ pc' = "loaded"
    /\ UNCHANGED <<csv_dfs, i, data_list, signals, sap_df, df_infor, df_merged,
                   df_filled, df_final, report, df_export, status>>
    /\ UNCHANGED addedVars

\* PO_Splitter.py 73-74
PageInforEmpty ==
    /\ pc = "loaded" /\ IsEmpty(infor_all)
    /\ status' = Status("error", "Gagal: tidak ada CSV Infor yang valid.")
    /\ pc' = "done"
    /\ UNCHANGED <<csv_dfs, i, data_list, signals, infor_all, sap_df, df_infor,
                   df_merged, df_filled, df_final, report, df_export>>
    /\ UNCHANGED addedVars

\* PO_Splitter.py 75-77, utils_pgd.py 277: build_report calls process_infor.
PageBuildReport ==
    /\ pc = "loaded" /\ ~IsEmpty(infor_all)
    /\ status' = Status("running", "Sukses membaca semua file. Lanjut proses...")
    /\ pc' = "process_infor"
    /\ UNCHANGED <<csv_dfs, i, data_list, signals, infor_all, sap_df, df_infor,
                   df_merged, df_filled, df_final, report, df_export>>
    /\ UNCHANGED addedVars

\* utils_pgd.py 125-127: a selected column is missing; the empty table.
ProcessInforMissing ==
    /\ pc = "process_infor" /\ missing_cols(infor_all) # <<>>
    /\ df_infor' = EmptyDF
    /\ pc' = "process_returned"
    /\ UNCHANGED <<csv_dfs, i, data_list, signals, infor_all, sap_df, df_merged,
                   df_filled, df_final, report, df_export, status>>
    /\ UNCHANGED addedVars

\* utils_pgd.py 129-137: select and aggregate by Order #.
ProcessInforAggregate ==
    /\ pc = "process_infor" /\ missing_cols(infor_all) = <<>>
    /\ df_infor' = Aggregate(infor_all)
    /\ pc' = "pad"
    /\ UNCHANGED <<csv_dfs, i, data_list, signals, infor_all, sap_df, df_merged,
                   df_filled, df_final, report, df_export, status>>
    /\ UNCHANGED addedVars

\* utils_pgd.py 138: df_infor["Order #"].astype(str).zfill(10): a Series has
\* no attribute zfill (the method is Series.str.zfill), so the line raises
\* AttributeError; process_infor and build_report do not return.
ProcessInforPad ==
    /\ pc = "pad"
    /\ pc' = "raised"
    /\ UNCHANGED <<csv_dfs, i, data_list, signals, infor_all, sap_df, df_infor,
                   df_merged, df_filled, df_final, report, df_export, status>>
    /\ UNCHANGED addedVars

\* utils_pgd.py 278-279: the empty report sentinel; nothing merged or compared.
BuildReportEmpty ==
    /\ pc = "process_returned" /\ IsEmpty(df_infor)
    /\ report' = EmptyDF
    /\ pc' = "build_returned"
    /\ UNCHANGED <<csv_dfs, i, data_list, signals, infor_all, sap_df, df_infor,
                   df_merged, df_filled, df_final, df_export, status>>
    /\ UNCHANGED addedVars

\* PO_Splitter.py 79-80
PageReportEmpty_complete ==
    /\ pc = "build_returned" /\ IsEmpty(report)
    /\ status' = Status("complete", "Report siap!")
    /\ pc' = "done"
    /\ UNCHANGED <<csv_dfs, i, data_list, signals, infor_all, sap_df, df_infor,
                   df_merged, df_filled, df_final, report, df_export>>
    /\ UNCHANGED addedVars
PageReportEmpty ==
    /\ pc = "build_returned" /\ IsEmpty(report)
    /\ status' = Status("error", "Gagal membuat report - periksa kolom wajib.")
    /\ pc' = "done"
    /\ UNCHANGED <<csv_dfs, i, data_list, signals, infor_all, sap_df, df_infor,
                   df_merged, df_filled, df_final, report, df_export>>
    /\ UNCHANGED addedVars

\* PO_Splitter.py 273-276: except Exception.
PageException ==
    /\ pc = "raised"
    /\ status' = Status("error", "Terjadi error saat menjalankan aplikasi.")
    /\ pc' = "done"
    /\ UNCHANGED <<csv_dfs, i, data_list, signals, infor_all, sap_df, df_infor,
                   df_merged, df_filled, df_final, report, df_export>>
    /\ UNCHANGED addedVars

Next ==
    \/ LoadInforAccept
    \/ LoadInforSkip
    \/ LoadInforReturn
    \/ PageInforEmpty
    \/ PageBuildReport
    \/ ProcessInforMissing
    \/ ProcessInforAggregate
    \/ ProcessInforPad
    \/ BuildReportEmpty
    \/ PageReportEmpty
    \/ PageException

Spec == Init /\ [][Next]_vars

(***************************************************************************)
(* merge_sap_infor called on a SAP table and an aggregated Infor table     *)
(* (one row per distinct Order # value).                                   *)
(***************************************************************************)
MaxSapRows == 2
MaxAggRows == 2

Open == Str(<<"O", "P", "E", "N">>)
Closed == Str(<<"C", "l", "o", "s", "e", "d">>)

MergeSapRows ==
    {SapRow(po, qty) : po \in {Str(<<"7">>), Str(<<"0", "7">>), IntV(8)}, qty \in {IntV(1), IntV(2)}}

MergeSapTables ==
    {[cols |-> SapCols, rows |-> rows] : rows \in SeqsUpTo(MergeSapRows, MaxSapRows)}
    \cup {[cols |-> <<"Quantity">>, rows |-> <<[c \in {"Quantity"} |-> IntV(1)]>>]}

AggCols == <<"Order #", "Order Status Infor", "Infor Quantity">>
AggRows ==
    {[c \in Range(AggCols) |-> IF c = "Order #" THEN order
                               ELSE IF c = "Infor Quantity" THEN qty ELSE Open] :
        order \in {Str(<<"7">>), Str(<<"0", "7">>), IntV(7), Str(<<"9">>)},
        qty \in {IntV(1), IntV(5)}}

\* Aggregated: no Order # value occurs in two rows.
MergeInforTables ==
    {[cols |-> AggCols, rows |-> rows] :
        rows \in {q \in SeqsUpTo(AggRows, MaxAggRows) :
                    \A a, b \in DOMAIN q : a # b => q[a]["Order #"] # q[b]["Order #"]}}

InitMerge ==
    /\ pc = "merge"
    /\ AddedIdle
    /\ sap_df \in MergeSapTables
    /\ df_infor \in MergeInforTables
    /\ df_merged = Unused
    /\ csv_dfs = <<>> /\ i = 0 /\ data_list = <<>> /\ signals = <<>>
    /\ infor_all = Unused /\ df_filled = Unused /\ df_final = Unused
    /\ report = Unused /\ df_export = Unused
    /\ status = Status("none", "")

\* utils_pgd.py 153-160
MergeSapInfor ==
    /\ pc = "merge"
    /\ HasCol(sap_df, "PO No.(Full)") /\ HasCol(df_infor, "Order #")
    /\ df_merged' = merge_sap_infor(sap_df, df_infor)
    /\ pc' = "merged"
    /\ UNCHANGED <<csv_dfs, i, data_list, signals, infor_all, sap_df, df_infor,
                   df_filled, df_final, report, df_export, status>>
    /\ UNCHANGED addedVars

\* utils_pgd.py 160: merge raises KeyError for a key column that is absent.
MergeKeyError ==
    /\ pc = "merge"
    /\ ~(HasCol(sap_df, "PO No.(Full)") /\ HasCol(df_infor, "Order #"))
    /\ pc' = "raised"
    /\ UNCHANGED <<csv_dfs, i, data_list, signals, infor_all, sap_df, df_infor,
                   df_merged, df_filled, df_final, report, df_export, status>>
    /\ UNCHANGED addedVars

NextMerge == MergeSapInfor \/ MergeKeyError

SpecMerge == InitMerge /\ [][NextMerge]_vars

(***************************************************************************)
(* The stages build_report runs on a merged table (utils_pgd.py 283-285)   *)
(* and the export blanking (PO_Splitter.py 254), applied to merged tables  *)
(* that exercise one compared pair or one backfilled date each.            *)
(***************************************************************************)
MaxRows == 1

D0415 == Date(20240415)
D0501 == Date(20240501)
D0520 == Date(20240520)
PaddedPO == Str(<<"0", "0", "0", "0", "0", "0", "0", "0", "0", "7">>)

RECURSIVE RowsOver(_, _)
RowsOver(cols, dom) ==
    IF cols = <<>> THEN {[c \in {} |-> NaN]}
    ELSE {[c \in DOMAIN row \cup {cols[1]} |-> IF c = cols[1] THEN v ELSE row[c]] :
            row \in RowsOver(Tail(cols), dom), v \in dom[cols[1]]}

TablesOver(cols, dom) ==
    {[cols |-> cols, rows |-> rows] :
        rows \in UNION {[1..m -> RowsOver(cols, dom)] : m \in 1..MaxRows}}

\* The cells drawn for each column.
CellsOf ==
    "PO No.(Full)" :> {PaddedPO}
    @@ "Order #" :> {PaddedPO}
    @@ "Remark" :> {Str(<<"o", "k">>)}
    @@ "Quantity" :> {IntV(10), IntV(0), NaN}
    @@ "Infor Quantity" :> {IntV(10), Flt(10004), IntV(12), NaN}
    @@ "Delay/Early - Confirmation CRD" :> {Str(<<"0", "1", "-", "0", "1", "6", "1">>), Str(<<"n", "a", "n">>), NaN}
    @@ "Infor Delay/Early - Confirmation CRD" :>
         {Str(<<"1", "6", "1">>), IntV(1), Flt(161000), Str(<<"1", "6", "1", ".", "7">>),
          Str(<<"9", "9", "9", "9">>), Str(<<"-", "-">>), Str(<<"N", "/", "A">>),
          Str(<<"N", "U", "L", "L">>), Str(<<"x", "1">>), NaN}
    @@ "Delay - PO PSDD Update" :> {Str(<<"0", "4", "-", "0", "0", "1", "0">>), Str(<<"0">>)}
    @@ "Infor Delay - PO PSDD Update" :> {Str(<<" ", "1", "0">>), Flt(10000), Str(<<"0">>)}
    @@ "Ship-to-Sort1" :> {Str(<<"1", "2", "3">>), Str(<<"1", "5">>), NaN}
    @@ "Infor GPS Country" :> {Flt(123000), Str(<<" ", "1", "2", "3">>), Str(<<"1", ".", "0", "5">>), NaN}
    @@ "Model Name" :> {Str(<<" ", "a", "B">>), NaN}
    @@ "Infor Model Name" :> {Str(<<"A", "B">>), Str(<<"n", "a", "n">>), NaN}
    @@ "LPD" :> {NaT, D0415, Str(<<"T", "B", "A">>)}
    @@ "Infor LPD" :> {NaT, D0415}
    @@ "FPD" :> {NaT, D0520}
    @@ "Infor FPD" :> {D0415}
    @@ "PSDD" :> {NaT, D0415}
    @@ "Infor PSDD" :> {NaT, D0501}
    @@ "PODD" :> {NaT, D0415}
    @@ "Infor PODD" :> {NaT, D0501}

\* The cells of the columns whose draw depends on the table.
WithCells(statusCells, crdCells, pdCells) ==
    CellsOf @@ "Order Status Infor" :> statusCells @@ "CRD" :> crdCells @@ "PD" :> pdCells

OpenOrClosed == {Open, Closed}
AnyStatus == {Str(<<" ", "o", "p", "e", "n", " ">>), Closed, NaN}

MergedTables ==
    TablesOver(<<"PO No.(Full)", "Quantity", "Order #", "Order Status Infor", "Infor Quantity">>,
               WithCells({Closed}, {}, {}))
    \cup TablesOver(<<"PO No.(Full)", "Quantity", "Order #", "Order Status Infor">>,
                    WithCells({Closed}, {}, {}))
    \cup TablesOver(<<"PO No.(Full)", "Order #", "Order Status Infor", "Infor Quantity">>,
                    WithCells({Closed}, {}, {}))
    \cup TablesOver(<<"PO No.(Full)", "Delay/Early - Confirmation CRD", "Order #",
                      "Order Status Infor", "Infor Delay/Early - Confirmation CRD">>,
                    WithCells({Closed}, {}, {}))
    \cup TablesOver(<<"PO No.(Full)", "Order #", "Infor Delay - PO PSDD Update",
                      "Delay - PO PSDD Update">>, WithCells({}, {}, {}))
    \cup TablesOver(<<"Remark", "PO No.(Full)", "Ship-to-Sort1", "Order #", "Order Status Infor",
                      "Infor GPS Country">>, WithCells({Closed}, {}, {}))
    \cup TablesOver(<<"PO No.(Full)", "Model Name", "Order #", "Order Status Infor",
                      "Infor Model Name">>, WithCells({Open}, {}, {}))
    \cup TablesOver(<<"PO No.(Full)", "LPD", "CRD", "PD", "Order #", "Order Status Infor",
                      "Infor LPD">>,
                    WithCells(AnyStatus, {NaT, D0501}, {NaT, D0415, D0520}))
    \cup TablesOver(<<"PO No.(Full)", "FPD", "CRD", "PD", "Order #", "Order Status Infor",
                      "Infor FPD">>,
                    WithCells(OpenOrClosed, {NaT, D0501, Str(<<"T", "B", "A">>)}, {NaT, D0415}))
    \cup TablesOver(<<"PO No.(Full)", "PSDD", "CRD", "Order #", "Order Status Infor",
                      "Infor PSDD">>,
                    WithCells(OpenOrClosed, {NaT, Str(<<"2", "0", "2", "4", "-", "0", "5", "-", "0", "1">>)}, {}))
    \cup TablesOver(<<"PO No.(Full)", "PODD", "CRD", "Order #", "Order Status Infor",
                      "Infor PODD">>,
                    WithCells(OpenOrClosed, {NaT, D0501}, {}))
    \cup TablesOver(<<"PO No.(Full)", "PODD", "Order #", "Order Status Infor">>,
                    WithCells({Open}, {}, {}))

InitStages ==
    /\ pc = "fill"
    /\ AddedIdle
    /\ df_merged \in MergedTables
    /\ df_filled = Unused /\ df_final = Unused /\ report = Unused /\ df_export = Unused
    /\ csv_dfs = <<>> /\ i = 0 /\ data_list = <<>> /\ signals = <<>>
    /\ infor_all = Unused /\ sap_df = Unused /\ df_infor = Unused
    /\ status = Status("none", "")

\* utils_pgd.py 283
FillMissingDates ==
    /\ pc = "fill"
    /\ df_filled' = fill_missing_dates(df_merged)
    /\ pc' = "compare"
    /\ UNCHANGED <<csv_dfs, i, data_list, signals, infor_all, sap_df, df_infor,
                   df_merged, df_final, report, df_export, status>>
    /\ UNCHANGED addedVars

\* utils_pgd.py 284
CleanAndCompare ==
    /\ pc = "compare"
    /\ df_final' = clean_and_compare(df_filled)
    /\ pc' = "reorder"
    /\ UNCHANGED <<csv_dfs, i, data_list, signals, infor_all, sap_df, df_infor,
                   df_merged, df_filled, report, df_export, status>>
    /\ UNCHANGED addedVars

\* utils_pgd.py 285
ReorderColumns ==
    /\ pc = "reorder"
    /\ report' = reorder_columns(df_final, DESIRED_ORDER)
    /\ pc' = "export"
    /\ UNCHANGED <<csv_dfs, i, data_list, signals, infor_all, sap_df, df_infor,
                   df_merged, df_filled, df_final, df_export, status>>
    /\ UNCHANGED addedVars

\* PO_Splitter.py 254 on the unfiltered view.
BlankDelayColumns ==
    /\ pc = "export"
    /\ df_export' = blank_delay_columns(report)
    /\ pc' = "exported"
    /\ UNCHANGED <<csv_dfs, i, data_list, signals, infor_all, sap_df, df_infor,
                   df_merged, df_filled, df_final, report, status>>
    /\ UNCHANGED addedVars

NextStages == FillMissingDates \/ CleanAndCompare \/ ReorderColumns \/ BlankDelayColumns

SpecStages == InitStages /\ [][NextStages]_vars

(***************************************************************************)
(* Claims checked under Spec (the page run)                                *)
(***************************************************************************)
ExceptionLabel == "Terjadi error saat menjalankan aplikasi."

\* process_infor's required-column check passes on the concatenated table.
PassesColumnCheck ==
    /\ pc \notin {"load", "loaded"} /\ ~IsEmpty(infor_all)
    /\ \A c \in Range(selected_columns) : HasCol(infor_all, c)

\* process_infor has finished (returned or raised) in this run.
ProcessInforEnded == pc \in {"raised", "process_returned", "build_returned", "done"}

OrderKeys == {infor_all.rows[r]["Order #"] : r \in DOMAIN infor_all.rows} \ {NaN, NA, NaT}

RECURSIVE QuantityOf(_, _)
QuantityOf(key, upto) ==
    IF upto = 0 THEN 0
    ELSE QuantityOf(key, upto - 1)
         + (IF infor_all.rows[upto]["Order #"] = key /\ ~IsNull(infor_all.rows[upto]["Quantity"])
            THEN Milli(infor_all.rows[upto]["Quantity"]) ELSE 0)

\* C2: whenever process_infor has run on a concatenated Infor table that
\* passes the required-column check, it has returned a table holding exactly
\* one row for each distinct Order # of the input, whose Infor Quantity is the
\* sum of Quantity over the input rows with that Order #.
C2_AggregationUniqueness ==
    (ProcessInforEnded /\ PassesColumnCheck) =>
        /\ pc # "raised" /\ status.label # ExceptionLabel
        /\ HasCol(df_infor, "Infor Quantity")
        /\ \A key \in OrderKeys :
              /\ Cardinality({r \in DOMAIN df_infor.rows : df_infor.rows[r]["Order #"] = key}) = 1
              /\ \A r \in DOMAIN df_infor.rows :
                    df_infor.rows[r]["Order #"] = key =>
                        Milli(df_infor.rows[r]["Infor Quantity"]) = QuantityOf(key, Len(infor_all.rows))

MandatoryColumns ==
    {"PO Statistical Delivery Date (PSDD)", "Customer Request Date (CRD)", "Line Aggregator"}

HasMandatory(t) == MandatoryColumns \subseteq Range(t.cols)

\* The rows of the first upto tables that have the mandatory columns, each
\* with the columns of its table.
RECURSIVE AcceptedRows(_)
AcceptedRows(upto) ==
    IF upto = 0 THEN <<>>
    ELSE AcceptedRows(upto - 1)
         \o (IF HasMandatory(csv_dfs[upto])
             THEN [r \in DOMAIN csv_dfs[upto].rows |->
                      [cols |-> Range(csv_dfs[upto].cols), row |-> csv_dfs[upto].rows[r]]]
             ELSE <<>>)

\* C9: the loader handles the tables in order; a table lacking a mandatory
\* column gives exactly one warning and no rows, every other table exactly
\* one info and all its rows; the accepted rows are concatenated in table
\* order then row order; with no table accepted the result is the empty table.
C9_LoaderRejectionPolicy ==
    /\ pc = "load" => Len(signals) = i - 1
    /\ pc # "load" => Len(signals) = Len(csv_dfs)
    /\ \A t \in DOMAIN signals :
          signals[t] = [kind |-> IF HasMandatory(csv_dfs[t]) THEN "info" ELSE "warn", idx |-> t]
    /\ pc # "load" =>
          IF \A t \in DOMAIN csv_dfs : ~HasMandatory(csv_dfs[t])
          THEN infor_all = EmptyDF
          ELSE /\ Len(infor_all.rows) = Len(AcceptedRows(Len(csv_dfs)))
               /\ \A r \in DOMAIN infor_all.rows :
                     \A c \in AcceptedRows(Len(csv_dfs))[r].cols :
                         infor_all.rows[r][c] = AcceptedRows(Len(csv_dfs))[r].row[c]

\* A skipped table with a row stands before an accepted one whose row is the
\* only row of the result.
C9_Witness ==
    /\ pc = "loaded" /\ Len(csv_dfs) = 2
    /\ ~HasMandatory(csv_dfs[1]) /\ Len(csv_dfs[1].rows) = 1
    /\ HasMandatory(csv_dfs[2]) /\ Len(csv_dfs[2].rows) = 1
    /\ Len(infor_all.rows) = 1
    /\ signals = <<[kind |-> "warn", idx |-> 1], [kind |-> "info", idx |-> 2]>>

\* process_infor was called on a table lacking one of its columns.
LacksSelectedColumn ==
    /\ pc \notin {"load", "loaded"} /\ ~IsEmpty(infor_all)
    /\ \E c \in Range(selected_columns) : ~HasCol(infor_all, c)

\* C10: when the concatenated Infor table lacks a column process_infor
\* requires, process_infor returns the empty table and does not raise,
\* build_report returns the empty report with nothing merged or compared,
\* and the run ends in the error state with nothing offered.
C10_StructuralFailure ==
    LacksSelectedColumn =>
        /\ pc \notin {"pad", "raised"} /\ status.label # ExceptionLabel
        /\ pc # "process_infor" => df_infor = EmptyDF
        /\ df_merged = Unused /\ df_filled = Unused /\ df_final = Unused
        /\ pc \in {"build_returned", "done"} => report = EmptyDF
        /\ pc = "done" => (status.state = "error" /\ status.offered = {})

C10_Witness ==
    /\ LacksSelectedColumn /\ pc = "done"
    /\ df_infor = EmptyDF /\ report = EmptyDF
    /\ status.state = "error"

(***************************************************************************)
(* Claims checked under SpecMerge                                          *)
(***************************************************************************)
\* C1: merging a SAP table of N rows with an aggregated Infor table gives
\* exactly N rows, the r-th carrying the fields of the r-th SAP row: no SAP
\* row is dropped and none is duplicated.
C1_JoinCardinality ==
    pc = "merged" =>
        /\ Len(df_merged.rows) = Len(sap_df.rows)
        /\ \A r \in DOMAIN sap_df.rows :
              \A c \in Range(sap_df.cols) \ {"PO No.(Full)"} :
                  df_merged.rows[r][c] = sap_df.rows[r][c]

(***************************************************************************)
(* Claims checked under SpecStages                                         *)
(***************************************************************************)
Filled == pc \in {"compare", "reorder", "export", "exported"}
Compared == pc \in {"reorder", "export", "exported"}

OpenText == <<"O", "P", "E", "N">>

\* Row r of the merged table has the status OPEN once trimmed and upper-cased.
IsOpenRow(r) ==
    /\ HasCol(df_merged, "Order Status Infor")
    /\ Upper(Strip(AsStr(df_merged.rows[r]["Order Status Infor"]))) = OpenText

\* The date in column c of row r of the merged table; missing for a column
\* the table lacks.
DateIn(r, c) == IF HasCol(df_merged, c) THEN ToDatetime(df_merged.rows[r][c]) ELSE NaT

Earlier(a, b) ==
    IF IsNull(a) THEN b ELSE IF IsNull(b) THEN a ELSE IF a.n <= b.n THEN a ELSE b

\* C6: in every OPEN row fill_missing_dates sets a missing LPD and a missing
\* FPD to the earlier of CRD and PD, ignoring a missing operand (both missing
\* gives missing), and a missing PSDD and a missing PODD to CRD.
C6_OpenOrderBackfill ==
    Filled =>
        \A r \in DOMAIN df_merged.rows :
            IsOpenRow(r) =>
                /\ \A c \in {"LPD", "FPD"} :
                      IsNull(DateIn(r, c)) =>
                          df_filled.rows[r][c] = Earlier(DateIn(r, "CRD"), DateIn(r, "PD"))
                /\ \A c \in {"PSDD", "PODD"} :
                      IsNull(DateIn(r, c)) => df_filled.rows[r][c] = DateIn(r, "CRD")

\* An open row with LPD missing, CRD 2024-05-01 and PD 2024-04-15 has got the
\* LPD 2024-04-15.
C6_Witness ==
    /\ pc = "compare"
    /\ \E r \in DOMAIN df_merged.rows :
          /\ IsOpenRow(r)
          /\ HasCol(df_merged, "LPD") /\ HasCol(df_merged, "PD")
          /\ df_merged.rows[r]["LPD"] = NaT
          /\ df_merged.rows[r]["CRD"] = D0501 /\ df_merged.rows[r]["PD"] = D0415
          /\ df_filled.rows[r]["LPD"] = D0415

BackfilledCols == {"LPD", "FPD", "PSDD", "PODD"}

\* C7: fill_missing_dates leaves every field of a row that is not OPEN as it
\* was, and in an OPEN row every field but a missing LPD, FPD, PSDD or PODD.
C7_BackfillFrame ==
    Filled =>
        /\ Len(df_filled.rows) = Len(df_merged.rows)
        /\ \A r \in DOMAIN df_merged.rows :
              \A c \in Range(df_merged.cols) :
                  \/ IsOpenRow(r) /\ c \in BackfilledCols /\ IsNull(df_merged.rows[r][c])
                  \/ df_filled.rows[r][c] = df_merged.rows[r][c]

ResultColumns == {result_pairs[j][1] : j \in DOMAIN result_pairs}
ResultValues == {ResultTrue, ResultFalse, ColumnMissing}

\* C3: for every compared pair the result of a row is TRUE when both columns
\* exist and the normalized values are present and equal, FALSE when both
\* columns exist and the values are present and unequal, and COLUMN MISSING,
\* on every row, exactly when one of the two columns is not in the table.
C3_ComparatorOutcome ==
    Compared =>
        \A j \in DOMAIN result_pairs :
            \A r \in DOMAIN df_final.rows :
                IF HasCol(df_filled, result_pairs[j][2]) /\ HasCol(df_filled, result_pairs[j][3])
                THEN LET a == df_final.rows[r][result_pairs[j][2]]
                         b == df_final.rows[r][result_pairs[j][3]]
                     IN /\ df_final.rows[r][result_pairs[j][1]] # ColumnMissing
                        /\ (~IsNull(a) /\ ~IsNull(b) /\ a = b) =>
                               df_final.rows[r][result_pairs[j][1]] = ResultTrue
                        /\ (~IsNull(a) /\ ~IsNull(b) /\ a # b) =>
                               df_final.rows[r][result_pairs[j][1]] = ResultFalse
                ELSE df_final.rows[r][result_pairs[j][1]] = ColumnMissing

\* Quantity 10 against Infor Quantity 10.004, equal once rounded, is TRUE in a
\* table whose model-name pair is COLUMN MISSING.
C3_Witness ==
    /\ pc = "reorder"
    /\ HasCol(df_filled, "Quantity") /\ HasCol(df_filled, "Infor Quantity")
    /\ \E r \in DOMAIN df_final.rows :
          /\ df_filled.rows[r]["Quantity"] = IntV(10)
          /\ df_filled.rows[r]["Infor Quantity"] = Flt(10004)
          /\ df_final.rows[r]["Result_Quantity"] = ResultTrue
          /\ df_final.rows[r]["Result_Model Name"] = ColumnMissing

\* The rows and pairs where both columns exist and exactly one of the two
\* values given to clean_and_compare is missing.
OneSideMissing(j, r) ==
    /\ HasCol(df_filled, result_pairs[j][2]) /\ HasCol(df_filled, result_pairs[j][3])
    /\ IsNull(df_filled.rows[r][result_pairs[j][2]]) # IsNull(df_filled.rows[r][result_pairs[j][3]])

NumericResults == {"Result_Quantity", "Result_Lead Time"}
DateResults == {"Result_FPD", "Result_LPD", "Result_CRD", "Result_PSDD", "Result_PODD", "Result_PD"}

\* The cleaned value of the present side.
PresentSide(j, r) ==
    IF IsNull(df_filled.rows[r][result_pairs[j][2]])
    THEN df_final.rows[r][result_pairs[j][3]]
    ELSE df_final.rows[r][result_pairs[j][2]]

C5_ResultDomain ==
    Compared =>
        \A c \in ResultColumns :
            /\ HasCol(df_final, c)
            /\ \A r \in DOMAIN df_final.rows : df_final.rows[r][c] \in ResultValues
            /\ pc \in {"export", "exported"} =>
                  /\ HasCol(report, c) /\ Len(report.rows) = Len(df_final.rows)
                  /\ \A r \in DOMAIN df_final.rows : report.rows[r][c] = df_final.rows[r][c]
            /\ pc = "exported" =>
                  /\ HasCol(df_export, c) /\ Len(df_export.rows) = Len(df_final.rows)
                  /\ \A r \in DOMAIN df_final.rows : df_export.rows[r][c] = df_final.rows[r][c]

\* The export blanked a delay cell of a row whose delay result is FALSE.
C5_Witness ==
    /\ pc = "exported" /\ df_export # report
    /\ \E r \in DOMAIN df_final.rows :
          /\ df_final.rows[r]["Result_Delay_CRD"] = ResultFalse
          /\ df_export.rows[r]["Result_Delay_CRD"] = ResultFalse

Sentinels == {Str(<<"-", "-">>), Str(<<"N", "/", "A">>), Str(<<"N", "U", "L", "L">>)}

\* A whole number, written as a number or as text.
IsInteger(v) ==
    \/ v.k = "int"
    \/ v.k = "float" /\ v.n % 1000 = 0
    \/ v.k = "str" /\ Strip(v.s) # <<>> /\ AllDigits(Strip(v.s))

IntegerOf(v) ==
    IF v.k = "int" THEN v.n
    ELSE IF v.k = "float" THEN v.n \div 1000
    ELSE DigitsValue(Strip(v.s))

Remapped(v) ==
    IF v \in Sentinels THEN NA
    ELSE IF IsInteger(v) /\ IntegerOf(v) \in DOMAIN code_mapping
         THEN Str(code_mapping[IntegerOf(v)])
         ELSE v

\* C8: in the two Infor delay columns a sentinel becomes missing, an integer
\* that is one of the 18 keys becomes its display code, and every other value
\* (unmapped integer, non-integer number, non-numeric code) stays as it is;
\* the cell of the compared table is that value as normalized text.
C8_DelayCodeRemap ==
    Compared =>
        \A c \in Range(infor_delay_cols) :
            HasCol(df_filled, c) =>
                \A r \in DOMAIN df_final.rows :
                    df_final.rows[r][c] = NormText(Remapped(df_filled.rows[r][c]))

(***************************************************************************)
(* Further claims checked under Spec                                       *)
(***************************************************************************)
\* Every uploaded Infor table was rejected by the loader.
AllSourcesRejected == \A t \in DOMAIN csv_dfs : ~HasMandatory(csv_dfs[t])

\* The concatenated table lacks a column process_infor selects.
RequiredColumnMissing ==
    /\ pc \notin {"load", "loaded"}
    /\ \E c \in Range(selected_columns) : ~HasCol(infor_all, c)

\* C11: a run with a SAP table of zero rows and a valid Infor input does not
\* end in the failure state; the failure state is reached only when every
\* Infor source was rejected or a required Infor column is missing.
C11_SentinelDistinct ==
    pc = "done" =>
        /\ (Len(sap_df.rows) = 0 /\ PassesColumnCheck) => status.state # "error"
        /\ status.state = "error" => (AllSourcesRejected \/ RequiredColumnMissing)

\* Some row of the concatenated table carries an Order #.
HasOrderRow == \E r \in DOMAIN infor_all.rows : ~IsNull(infor_all.rows[r]["Order #"])

\* C17: for a concatenated table with every selected column and a row with an
\* Order #, process_infor returns a non-empty table whose Order # values are
\* text of at least 10 characters, and the run on a SAP table with a row ends
\* with a report.
C17_KeyPaddingCompletes ==
    (ProcessInforEnded /\ PassesColumnCheck /\ HasOrderRow) =>
        /\ pc # "raised" /\ status.label # ExceptionLabel
        /\ ~IsEmpty(df_infor)
        /\ \A r \in DOMAIN df_infor.rows :
              /\ df_infor.rows[r]["Order #"].k = "str"
              /\ Len(df_infor.rows[r]["Order #"].s) >= ZFillWidth
        /\ (pc = "done" /\ Len(sap_df.rows) > 0) => status.state = "complete"

(***************************************************************************)
(* Further claims checked under SpecStages                                 *)
(***************************************************************************)
Reordered == pc \in {"export", "exported"}

PosIn(seq, c) == CHOOSE j \in DOMAIN seq : seq[j] = c

Canonical(c) == c \in Range(DESIRED_ORDER)

\* C16: reorder_columns returns the columns of its input, each once: those of
\* the canonical list first, in the order of that list, then the others in
\* the order they had; the rows hold the same value in every column.
C16_ReorderIsPermutation ==
    Reordered =>
        /\ Range(report.cols) = Range(df_final.cols)
        /\ Len(report.cols) = Len(df_final.cols)
        /\ \A a, b \in DOMAIN report.cols :
              a < b =>
                  /\ report.cols[a] # report.cols[b]
                  /\ Canonical(report.cols[b]) => Canonical(report.cols[a])
                  /\ Canonical(report.cols[b]) =>
                        PosIn(DESIRED_ORDER, report.cols[a]) < PosIn(DESIRED_ORDER, report.cols[b])
                  /\ ~Canonical(report.cols[a]) =>
                        PosIn(df_final.cols, report.cols[a]) < PosIn(df_final.cols, report.cols[b])
        /\ Len(report.rows) = Len(df_final.rows)
        /\ \A r \in DOMAIN df_final.rows :
              /\ DOMAIN report.rows[r] = DOMAIN df_final.rows[r]
              /\ \A c \in Range(df_final.cols) : report.rows[r][c] = df_final.rows[r][c]

\* A table that begins with a column outside the canonical list and has a
\* second such column further on was reordered.
C16_Witness ==
    /\ pc = "export" /\ report.cols # df_final.cols
    /\ df_final.cols[1] = "Remark" /\ ~Canonical("Remark")
    /\ \E a \in DOMAIN report.cols :
          /\ a < Len(report.cols)
          /\ report.cols[a] = "Remark" /\ report.cols[a + 1] = "Order #"
    /\ report.cols[1] = "PO No.(Full)"

DotZeroCols == {"Ship-to-Sort1", "Infor GPS Country"}

\* The text without a final ".0".
WithoutDotZeroSuffix(t) ==
    IF Len(t) >= 2 /\ t[Len(t) - 1] = "." /\ t[Len(t)] = "0"
    THEN SubSeq(t, 1, Len(t) - 2) ELSE t

\* C19: for Ship-to-Sort1 and Infor GPS Country clean_and_compare removes
\* ".0" only where it ends the trimmed, upper-cased value and leaves every
\* other character as it is.
C19_TrailingDotZero ==
    Compared =>
        \A c \in DotZeroCols :
            HasCol(df_filled, c) =>
                \A r \in DOMAIN df_final.rows :
                    df_final.rows[r][c] =
                        Str(WithoutDotZeroSuffix(NormText(df_filled.rows[r][c]).s))

(***************************************************************************)
(* The aggregation of process_infor, checked under Spec on the table held  *)
(* after lines 129-137                                                     *)
(***************************************************************************)
Aggregated == pc \in {"pad", "raised"}

FirstFields == Range(selected_columns) \ {"Order #", "Quantity"}

Least(S) == CHOOSE m \in S : \A n \in S : m <= n

\* The input rows carrying the Order # of aggregated row g.
RowsOfGroup(g) ==
    {r \in DOMAIN infor_all.rows : infor_all.rows[r]["Order #"] = df_infor.rows[g]["Order #"]}

\* C18 as stated: every field but Quantity of an aggregated row is the value
\* of the first input row carrying its Order #, missing or not.
C18_FirstValue ==
    Aggregated =>
        \A g \in DOMAIN df_infor.rows :
            \A c \in FirstFields :
                df_infor.rows[g][c] = infor_all.rows[Least(RowsOfGroup(g))][c]

\* C18: every field but Quantity of an aggregated row is the first value that
\* is not missing among the input rows carrying its Order #, in concatenation
\* order, and is missing only when the field is missing in all of them.
C18_FirstPresentValue ==
    Aggregated =>
        \A g \in DOMAIN df_infor.rows :
            \A c \in FirstFields :
                LET present == {r \in RowsOfGroup(g) : ~IsNull(infor_all.rows[r][c])}
                IN IF present = {} THEN IsNull(df_infor.rows[g][c])
                   ELSE df_infor.rows[g][c] = infor_all.rows[Least(present)][c]

\* An order whose first row has no model name and whose second row has one
\* was aggregated to the second row's model name.
C18_Witness ==
    /\ pc = "pad" /\ Len(infor_all.rows) = 2
    /\ infor_all.rows[1]["Order #"] = infor_all.rows[2]["Order #"]
    /\ IsNull(infor_all.rows[1]["Model Name"])
    /\ infor_all.rows[2]["Model Name"] = Str(<<"A">>)
    /\ Len(df_infor.rows) = 1
    /\ df_infor.rows[1]["Model Name"] = Str(<<"A">>)

(***************************************************************************)
(* build_report from the merge on (utils_pgd.py 282-285), on a SAP table   *)
(* and an aggregated Infor table whose keys stay distinct when padded.     *)
(***************************************************************************)
ReportSapCols == <<"PO No.(Full)", "Quantity", "Model Name", "LPD">>
ReportSapRows ==
    {[c \in Range(ReportSapCols) |->
         IF c = "PO No.(Full)" THEN po
         ELSE IF c = "Quantity" THEN qty
         ELSE IF c = "Model Name" THEN Str(<<"A", "B">>) ELSE D0415] :
        po \in {Str(<<"7">>), Str(<<"8">>)}, qty \in {IntV(0), IntV(10)}}

ReportSapTables ==
    {[cols |-> ReportSapCols, rows |-> rows] :
        rows \in UNION {[1..m -> ReportSapRows] : m \in 1..MaxSapRows}}

ReportInforCols ==
    <<"Order #", "Order Status Infor", "Infor Quantity", "Infor Model Name", "Infor LPD">>
ReportInforRows ==
    {[c \in Range(ReportInforCols) |->
         IF c = "Order #" THEN order
         ELSE IF c = "Order Status Infor" THEN st
         ELSE IF c = "Infor Quantity" THEN IntV(10)
         ELSE IF c = "Infor Model Name" THEN Str(<<"A", "B">>) ELSE lpd] :
        order \in {Str(<<"7">>), Str(<<"9">>)}, st \in {Open, Closed},
        lpd \in {D0415, Str(<<"T", "B", "A">>)}}

ReportInforTables ==
    {[cols |-> ReportInforCols, rows |-> rows] :
        rows \in {q \in UNION {[1..m -> ReportInforRows] : m \in 1..MaxAggRows} :
                    \A a, b \in DOMAIN q : a # b => q[a]["Order #"] # q[b]["Order #"]}}

InitReport ==
    /\ pc = "build_convert"
    /\ AddedIdle
    /\ sap_df \in ReportSapTables
    /\ df_infor \in ReportInforTables
    /\ df_merged = Unused /\ df_filled = Unused /\ df_final = Unused
    /\ report = Unused /\ df_export = Unused
    /\ csv_dfs = <<>> /\ i = 0 /\ data_list = <<>> /\ signals = <<>>
    /\ infor_all = Unused
    /\ status = Status("none", "")

\* utils_pgd.py 280-281: load_sap works on a copy; convert_date_columns
\* assigns the coerced columns to the table it is given and returns that
\* table, so df_infor and df_infor2 are one table.
BuildReportConvert ==
    /\ pc = "build_convert"
    /\ df_sap2' = load_sap(sap_df)
    /\ df_infor' = convert_date_columns(df_infor)
    /\ df_infor2' = convert_date_columns(df_infor)
    /\ pc' = "build_merge"
    /\ UNCHANGED <<csv_dfs, i, data_list, signals, infor_all, sap_df,
                   df_merged, df_filled, df_final, report, df_export, status>>
    /\ UNCHANGED <<tempVars, filterVars>>

\* utils_pgd.py 282
BuildReportMerge ==
    /\ pc = "build_merge"
    /\ df_merged' = merge_sap_infor(df_sap2, df_infor2)
    /\ pc' = "fill"
    /\ UNCHANGED <<csv_dfs, i, data_list, signals, infor_all, sap_df, df_infor,
                   df_filled, df_final, report, df_export, status>>
    /\ UNCHANGED addedVars

NextReport ==
    BuildReportConvert \/ BuildReportMerge \/ FillMissingDates \/ CleanAndCompare \/ ReorderColumns

SpecReport == InitReport /\ [][NextReport]_vars

\* The fields process_infor names for Infor (utils_pgd.py 140-147).
InforFields ==
    {"Order Status Infor", "Infor Model Name", "Infor Article No", "Infor GPS Country",
     "Infor Ship-to Country", "Infor CRD", "Infor PD", "Infor PSDD", "Infor FPD", "Infor LPD",
     "Infor PODD", "Infor Lead time", "Infor Classification Code",
     "Infor Delay/Early - Confirmation CRD", "Infor Delay - PO PSDD Update", "Infor Quantity"}

\* SAP row r has a padded key that no aggregated Infor row has.
Unmatched(r) ==
    \A a \in DOMAIN df_infor2.rows :
        PadKey(df_infor2.rows[a]["Order #"]) # PadKey(df_sap2.rows[r]["PO No.(Full)"])

\* C15: in the report build_report returns, every Infor field of a SAP row
\* whose padded key matches no aggregated Infor key is missing.
C15_UnmatchedRowsMissing ==
    pc = "export" =>
        /\ Len(report.rows) = Len(sap_df.rows)
        /\ \A r \in DOMAIN sap_df.rows :
              Unmatched(r) =>
                  \A c \in InforFields \cap Range(report.cols) : IsNull(report.rows[r][c])

(***************************************************************************)
(* The Temporary LPD Check page (pages/Temporary_LPD_Check.py 48-114)      *)
(***************************************************************************)
\* _norm of the column names that occur in the uploaded tables:
\* str(s).strip().lower() with ".", "_" and "-" replaced by a blank.
norm ==
    "SO" :> "so" @@ "so " :> "so" @@ "S.O" :> "s o"
    @@ "Remark 2" :> "remark 2" @@ "Remark-2" :> "remark 2" @@ "Remark2" :> "remark2"
    @@ "Note" :> "note" @@ "Quantity" :> "quantity"
    @@ "Result_LPD" :> "result lpd" @@ "Result LPD" :> "result lpd"
    @@ "Result-LPD" :> "result lpd"

\* _find_col: the first column whose normalized name is that of the first
\* candidate that has one; "None" if no candidate has.
RECURSIVE find_col(_, _)
find_col(df, candidates) ==
    IF candidates = <<>> THEN "None"
    ELSE LET hits == SelectSeq(df.cols, LAMBDA col : norm[col] = norm[candidates[1]])
         IN IF hits # <<>> THEN hits[1] ELSE find_col(df, Tail(candidates))

OrElse(found, default) == IF found = "None" THEN default ELSE found

\* Lines 86-90
temp_so_col == OrElse(find_col(temp_df, <<"SO">>), "SO")
temp_remark2_col ==
    OrElse(find_col(temp_df, <<"Remark 2", "Remark2", "Remark-2">>), "Remark 2")
pgd_so_col == OrElse(find_col(pgd_df, <<"SO">>), "SO")
pgd_result_lpd_col ==
    OrElse(find_col(pgd_df, <<"Result LPD", "Result_LPD", "Result-LPD">>), "Result_LPD")

\* Line 93
miss_temp ==
    SelectSeq(<<temp_so_col, temp_remark2_col>>, LAMBDA c : ~HasCol(temp_df, c))

\* _is_empty_series on one cell: s.isna() | s.astype(str).str.strip().eq("")
is_empty_series(v) == IsNull(v) \/ Strip(AsStr(v)) = <<>>

\* Line 106 on one row: the SO as trimmed text.
tmp_so(r) == Strip(AsStr(temp_df.rows[r][temp_so_col]))

\* Line 108: duplicated(keep=False)
dup_mask_first(r) == \E q \in DOMAIN temp_df.rows : q < r /\ tmp_so(q) = tmp_so(r)
dup_mask(r) == \E q \in DOMAIN temp_df.rows : q # r /\ tmp_so(q) = tmp_so(r)

\* Line 107
tmp_rem2_empty(r) == is_empty_series(temp_df.rows[r][temp_remark2_col])

TempText == Str(<<"T", "E", "M", "P">>)

MaxTrackRows == 2
MaxPgdRows == 1

\* Rows of a tracking table: an SO and a Remark 2.
TrackCells ==
    {<<Str(<<"1", "2">>), NaN>>, <<Str(<<"1", "2">>), Str(<<"o", "k">>)>>,
     <<Str(<<" ", "1", "2">>), Str(<<" ">>)>>, <<Str(<<"0", "1", "2">>), Str(<<>>)>>,
     <<Str(<<"1", ",", "2">>), NaN>>, <<NaN, NaN>>}

TrackTablesOver(cols) ==
    {[cols |-> cols, rows |-> rows] :
        rows \in UNION {[1..m -> {[c \in Range(cols) |-> IF c = cols[1] THEN sr[1] ELSE sr[2]] :
                                     sr \in TrackCells}] : m \in 0..MaxTrackRows}}

TrackTables ==
    TrackTablesOver(<<"SO", "Remark 2">>)
    \cup {t \in TrackTablesOver(<<"so ", "Remark-2">>) \cup TrackTablesOver(<<"SO", "Remark2">>)
            \cup TrackTablesOver(<<"SO", "Note">>) \cup TrackTablesOver(<<"S.O", "Remark 2">>) :
            Len(t.rows) = 1 /\ t.rows[1][t.cols[1]] = Str(<<"1", "2">>)}

\* Rows of a supplied report: an SO, a quantity and, in some, a Result_LPD.
PgdTablesOver(cols) ==
    {[cols |-> cols, rows |-> rows] :
        rows \in UNION {[1..m -> {[c \in Range(cols) |->
                                      IF norm[c] = "so" THEN so
                                      ELSE IF c = "Quantity" THEN IntV(10) ELSE res] :
                                     so \in {Str(<<"1", "2">>), Str(<<"0", "1", "2">>), NaN},
                                     res \in {ResultTrue, TempText}}] : m \in 0..MaxPgdRows}}

PgdTables ==
    PgdTablesOver(<<"SO", "Quantity", "Result_LPD">>)
    \cup PgdTablesOver(<<"SO", "Quantity">>)
    \cup PgdTablesOver(<<"so ", "Result LPD", "Quantity">>)
    \cup PgdTablesOver(<<"Quantity", "Result_LPD">>)

InitTemp ==
    /\ pc = "temp_read"
    /\ temp_file \in TrackTables
    /\ pgd_file \in PgdTables
    /\ temp_df = Unused /\ pgd_df = Unused
    /\ so_target = {} /\ before = <<>> /\ match_mask = <<>> /\ errors = <<>>
    /\ df_sap2 = Unused /\ df_infor2 = Unused
    /\ session_state = <<>> /\ widgets = <<>> /\ submitted = FALSE /\ df_view = Unused
    /\ csv_dfs = <<>> /\ i = 0 /\ data_list = <<>> /\ signals = <<>>
    /\ infor_all = Unused /\ sap_df = Unused /\ df_infor = Unused
    /\ df_merged = Unused /\ df_filled = Unused /\ df_final = Unused
    /\ report = Unused /\ df_export = Unused
    /\ status = Status("none", "")

pipelineVars == <<csv_dfs, i, data_list, signals, infor_all, sap_df, df_infor,
                  df_merged, df_filled, df_final, report, df_export, status>>

\* Lines 79-80
TempRead ==
    /\ pc = "temp_read"
    /\ temp_df' = temp_file
    /\ pgd_df' = pgd_file
    /\ pc' = "temp_validate"
    /\ UNCHANGED <<temp_file, pgd_file, so_target, before, match_mask, errors>>
    /\ UNCHANGED <<pipelineVars, reportVars, filterVars>>

\* Lines 93-96: st.error and st.stop
TempStopTracking ==
    /\ pc = "temp_validate"
    /\ miss_temp # <<>>
    /\ errors' = Append(errors, "Temporary Tracking: kolom wajib tidak ditemukan")
    /\ pc' = "stopped"
    /\ UNCHANGED <<temp_file, pgd_file, temp_df, pgd_df, so_target, before, match_mask>>
    /\ UNCHANGED <<pipelineVars, reportVars, filterVars>>

\* Lines 98-100
TempStopReport ==
    /\ pc = "temp_validate"
    /\ miss_temp = <<>>
    /\ ~HasCol(pgd_df, pgd_so_col)
    /\ errors' = Append(errors, "PGD Report: kolom 'SO' tidak ditemukan.")
    /\ pc' = "stopped"
    /\ UNCHANGED <<temp_file, pgd_file, temp_df, pgd_df, so_target, before, match_mask>>
    /\ UNCHANGED <<pipelineVars, reportVars, filterVars>>

\* Lines 102-103: pgd_df[pgd_result_lpd_col] = "" on the table read.
TempEnsureResultCol ==
    /\ pc = "temp_validate"
    /\ miss_temp = <<>>
    /\ HasCol(pgd_df, pgd_so_col)
    /\ pgd_df' = IF HasCol(pgd_df, pgd_result_lpd_col) THEN pgd_df
                 ELSE [cols |-> Append(pgd_df.cols, pgd_result_lpd_col),
                       rows |-> [r \in DOMAIN pgd_df.rows |->
                                   [c \in Range(pgd_df.cols) \cup {pgd_result_lpd_col} |->
                                       IF c = pgd_result_lpd_col THEN Str(<<>>)
                                       ELSE pgd_df.rows[r][c]]]]
    /\ pc' = "temp_target"
    /\ UNCHANGED <<temp_file, pgd_file, temp_df, so_target, before, match_mask, errors>>
    /\ UNCHANGED <<pipelineVars, reportVars, filterVars>>

\* Lines 106-109
TempTargets ==
    /\ pc = "temp_target"
    /\ so_target' = {tmp_so(r) : r \in {q \in DOMAIN temp_df.rows : dup_mask(q) /\ tmp_rem2_empty(q)}}
    /\ pc' = "temp_apply"
    /\ UNCHANGED <<temp_file, pgd_file, temp_df, pgd_df, before, match_mask, errors>>
    /\ UNCHANGED <<pipelineVars, reportVars, filterVars>>

\* Lines 112-114: the assignment through .loc writes into pgd_df itself.
TempApply ==
    /\ pc = "temp_apply"
    /\ before' = [r \in DOMAIN pgd_df.rows |-> pgd_df.rows[r][pgd_result_lpd_col]]
    /\ match_mask' = [r \in DOMAIN pgd_df.rows |->
                         Strip(AsStr(pgd_df.rows[r][pgd_so_col])) \in so_target]
    /\ pgd_df' = [cols |-> pgd_df.cols,
                  rows |-> [r \in DOMAIN pgd_df.rows |->
                              [c \in Range(pgd_df.cols) |->
                                  IF c = pgd_result_lpd_col
                                     /\ Strip(AsStr(pgd_df.rows[r][pgd_so_col])) \in so_target
                                  THEN TempText ELSE pgd_df.rows[r][c]]]]
    /\ pc' = "temp_done"
    /\ UNCHANGED <<temp_file, pgd_file, temp_df, so_target, errors>>
    /\ UNCHANGED <<pipelineVars, reportVars, filterVars>>

NextTemp ==
    \/ TempRead \/ TempStopTracking \/ TempStopReport
    \/ TempEnsureResultCol \/ TempTargets \/ TempApply

SpecTemp == InitTemp /\ [][NextTemp]_vars

(***************************************************************************)
(* Claims checked under SpecTemp                                           *)
(***************************************************************************)
\* The Result_LPD column of the supplied report, or the one the run creates.
ResultLpdCol == pgd_result_lpd_col

\* The Result_LPD of row r before the run: blank if the column was created.
PreviousResult(r) ==
    IF HasCol(pgd_file, ResultLpdCol) THEN pgd_file.rows[r][ResultLpdCol] ELSE Str(<<>>)

Blank(v) == IsNull(v) \/ (v.k = "str" /\ \A j \in DOMAIN v.s : IsSpace(v.s[j]))

HasSO(r) == ~IsNull(pgd_file.rows[r][pgd_so_col])

\* The tracking rows whose SO, as trimmed text, is that of report row r.
TrackingRowsOf(r) ==
    {t \in DOMAIN temp_df.rows :
        /\ ~IsNull(temp_df.rows[t][temp_so_col])
        /\ Strip(AsStr(temp_df.rows[t][temp_so_col])) = Strip(AsStr(pgd_file.rows[r][pgd_so_col]))}

RECURSIVE StripLeadingZeros(_)
StripLeadingZeros(t) ==
    IF t # <<>> /\ t[1] = "0" THEN StripLeadingZeros(Tail(t)) ELSE t

\* The SO with every non-digit removed, then the leading zeros.
NormalizedSO(v) == StripLeadingZeros(SelectSeq(AsStr(v), IsDigit))

NormalizedRowsOf(r) ==
    {t \in DOMAIN temp_df.rows :
        /\ ~IsNull(temp_df.rows[t][temp_so_col])
        /\ NormalizedSO(temp_df.rows[t][temp_so_col]) = NormalizedSO(pgd_file.rows[r][pgd_so_col])}

\* C13: SO identifiers are compared with the non-digits and then the leading
\* zeros removed, both to find the duplicates of the tracking table and to
\* select the report rows set to TEMP.
C13_NormalizedMatching ==
    pc = "temp_done" =>
        \A r \in DOMAIN pgd_file.rows :
            HasSO(r) =>
                pgd_df.rows[r][ResultLpdCol] =
                    (IF /\ Cardinality(NormalizedRowsOf(r)) >= 2
                        /\ \E t \in NormalizedRowsOf(r) : Blank(temp_df.rows[t][temp_remark2_col])
                     THEN TempText ELSE PreviousResult(r))

\* The tracking rows whose SO cell is missing or blank.
BlankSoTrackingRows == {t \in DOMAIN temp_df.rows : Blank(temp_df.rows[t][temp_so_col])}

\* The report rows whose SO cell is missing or blank.
BlankSoReportRows == {r \in DOMAIN pgd_file.rows : Blank(pgd_file.rows[r][pgd_so_col])}

\* C21: a tracking row whose SO is missing or blank gives no value to the
\* target set, and the run never sets a report row whose own SO is missing
\* or blank to TEMP: it keeps its previous Result_LPD, however many blank-SO
\* rows with a blank Remark 2 the tracking table has.
C21_MissingSoNeverTarget ==
    /\ pc \in {"temp_apply", "temp_done"} =>
           \A t \in BlankSoTrackingRows : tmp_so(t) \notin so_target
    /\ pc = "temp_done" =>
           \A r \in BlankSoReportRows : pgd_df.rows[r][ResultLpdCol] = PreviousResult(r)

\* C14: no operation changes the table it is given: the convert, merge,
\* fill, compare, reorder and blanking steps and the TEMP propagation leave
\* their argument as it was.
C14_InputsUnchanged ==
    [][/\ pc \in {"temp_validate", "temp_target", "temp_apply"} =>
             (pgd_df' = pgd_df /\ temp_df' = temp_df)
       /\ pc = "build_convert" => (df_infor' = df_infor /\ sap_df' = sap_df)
       /\ pc = "build_merge" => (df_sap2' = df_sap2 /\ df_infor2' = df_infor2)
       /\ pc = "fill" => df_merged' = df_merged
       /\ pc = "compare" => df_filled' = df_filled
       /\ pc = "reorder" => df_final' = df_final
       /\ pc = "export" => report' = report]_vars

(***************************************************************************)
(* The filter form of the comparison page (pages/PO_Splitter.py 84-145,    *)
(* 254, 270-271): every step is one rerun of the script on the same        *)
(* uploaded files, so with the same report.                                *)
(***************************************************************************)
\* _uniq_vals (lines 52-56), as the set of the texts.
uniq_vals(df, col) ==
    IF HasCol(df, col)
    THEN {AsStr(df.rows[r][col]) : r \in {q \in DOMAIN df.rows : ~IsNull(df.rows[q][col])}}
    ELSE {}

\* Lines 96-104
result_cols ==
    <<"Result_Quantity", "Result_FPD", "Result_LPD", "Result_CRD", "Result_PSDD",
      "Result_PODD", "Result_PD">>

\* Lines 106-111: the result columns that get a multiselect.
ResultWidgetCols(df) == {c \in Range(result_cols) : uniq_vals(df, c) # {}}

\* session_state.get(key, default)
Get(sess, key, default) == IF key \in DOMAIN sess THEN sess[key] ELSE default

\* Line 134: df_view = final_df.copy()
view_base_session(fin, sess) == Get(sess, "pgd_comp_df_view", fin)
view_base(fin, sess) == fin

\* Lines 135-142
apply_filters(base, fin, selected_status, selected_pos, result_selections) ==
    LET byStatus == IF selected_status # {}
                    THEN SelectSeq(base.rows, LAMBDA row :
                             AsStr(row["Order Status Infor"]) \in selected_status)
                    ELSE base.rows
        byPo == IF selected_pos # {}
                THEN SelectSeq(byStatus, LAMBDA row : AsStr(row["PO No.(Full)"]) \in selected_pos)
                ELSE byStatus
        byResult == SelectSeq(byPo, LAMBDA row :
                        \A col \in DOMAIN result_selections :
                            (result_selections[col] # {}
                             /\ result_selections[col] # uniq_vals(fin, col))
                                => AsStr(row[col]) \in result_selections[col])
    IN [cols |-> base.cols, rows |-> byResult]

\* Lines 129-144 with the selections now stored in sess.
stored_view(fin, old, sess) ==
    apply_filters(view_base(fin, old), fin,
                  Get(sess, "pgd_comp_selected_status", uniq_vals(fin, "Order Status Infor")),
                  Get(sess, "pgd_comp_selected_pos", {}),
                  Get(sess, "pgd_comp_result_selections", <<>>))

MaxViewRows == 2

TextOpen == <<"O", "P", "E", "N">>
TextFalse == <<"F", "A", "L", "S", "E">>
TextP7 == <<"P", "7">>

FilterCols ==
    <<"PO No.(Full)", "Order Status Infor", "Result_Quantity", "Delay - PO PSDD Update">>
FilterRows ==
    {[c \in Range(FilterCols) |-> cells[PosIn(FilterCols, c)]] :
        cells \in {<<Str(TextP7), Str(TextOpen), ResultTrue, Flt(0)>>,
                   <<Str(<<"P", "8">>), Str(<<"C", "L", "O", "S", "E", "D">>), ResultFalse,
                     Flt(3000)>>,
                   <<Str(<<"P", "8">>), Str(TextOpen), ResultFalse, NaN>>,
                   <<Str(TextP7), Str(<<"N", "A", "N">>), ResultTrue, Flt(0)>>}}

\* Reports that are not empty, as the page shows the form only for those.
FilterReports ==
    {[cols |-> FilterCols, rows |-> rows] :
        rows \in UNION {[1..m -> FilterRows] : m \in 1..MaxViewRows}}

\* What the form's widgets can return for a report: multiselects return
\* options of theirs.
WidgetValues(fin) ==
    [selected_status : {uniq_vals(fin, "Order Status Infor"), {},
                        uniq_vals(fin, "Order Status Infor") \cap {TextOpen}},
     selected_pos : {{}, uniq_vals(fin, "PO No.(Full)") \cap {TextP7}},
     result_selections : [ResultWidgetCols(fin) ->
                             {uniq_vals(fin, "Result_Quantity"),
                              uniq_vals(fin, "Result_Quantity") \cap {TextFalse}}],
     mode : {"Semua Kolom", "Analisis LPD PODD"}]

\* Lines 87-117: the defaults of the form's widgets.
WidgetDefaults(fin) ==
    [selected_status |-> uniq_vals(fin, "Order Status Infor"),
     selected_pos |-> {},
     result_selections |-> [c \in ResultWidgetCols(fin) |-> uniq_vals(fin, c)],
     mode |-> "Semua Kolom"]

InitFilter ==
    /\ pc = "filter"
    /\ report \in FilterReports
    /\ status = Status("complete", "Report siap!")
    /\ session_state = <<>>
    /\ widgets = WidgetDefaults(report)
    /\ submitted = FALSE
    /\ df_view = Unused /\ df_export = Unused
    /\ df_sap2 = Unused /\ df_infor2 = Unused
    /\ temp_file = Unused /\ pgd_file = Unused /\ temp_df = Unused /\ pgd_df = Unused
    /\ so_target = {} /\ before = <<>> /\ match_mask = <<>> /\ errors = <<>>
    /\ csv_dfs = <<>> /\ i = 0 /\ data_list = <<>> /\ signals = <<>>
    /\ infor_all = Unused /\ sap_df = Unused /\ df_infor = Unused
    /\ df_merged = Unused /\ df_filled = Unused /\ df_final = Unused

\* Lines 124-127
StoreSelections(sess, w) ==
    [k \in DOMAIN sess \cup {"pgd_comp_selected_status", "pgd_comp_selected_pos",
                             "pgd_comp_result_selections", "pgd_comp_mode_val"} |->
        IF k = "pgd_comp_selected_status" THEN w.selected_status
        ELSE IF k = "pgd_comp_selected_pos" THEN w.selected_pos
        ELSE IF k = "pgd_comp_result_selections" THEN w.result_selections
        ELSE IF k = "pgd_comp_mode_val" THEN w.mode
        ELSE sess[k]]

\* Lines 144-145
StoreView(sess, view, fin) ==
    [k \in DOMAIN sess \cup {"pgd_comp_df_view", "pgd_comp_final_df"} |->
        IF k = "pgd_comp_df_view" THEN view
        ELSE IF k = "pgd_comp_final_df" THEN fin
        ELSE sess[k]]

\* A rerun in which Execute was pressed (lines 119, 122-145, 254).
RerunExecute ==
    /\ pc = "filter"
    /\ \E w \in WidgetValues(report) :
          /\ widgets' = w
          /\ submitted' = TRUE
          /\ df_view' = stored_view(report, session_state, StoreSelections(session_state, w))
          /\ session_state' = StoreView(StoreSelections(session_state, w),
                                        stored_view(report, session_state,
                                                    StoreSelections(session_state, w)),
                                        report)
    /\ df_export' = blank_delay_columns(df_view')
    /\ UNCHANGED <<pc, csv_dfs, i, data_list, signals, infor_all, sap_df, df_infor,
                   df_merged, df_filled, df_final, report, status>>
    /\ UNCHANGED <<reportVars, tempVars>>

\* A rerun without Execute after a view was stored (lines 122, 129-145, 254).
RerunStoredView ==
    /\ pc = "filter"
    /\ "pgd_comp_df_view" \in DOMAIN session_state
    /\ \E w \in WidgetValues(report) : widgets' = w
    /\ submitted' = FALSE
    /\ df_view' = stored_view(report, session_state, session_state)
    /\ session_state' = StoreView(session_state,
                                  stored_view(report, session_state, session_state), report)
    /\ df_export' = blank_delay_columns(df_view')
    /\ UNCHANGED <<pc, csv_dfs, i, data_list, signals, infor_all, sap_df, df_infor,
                   df_merged, df_filled, df_final, report, status>>
    /\ UNCHANGED <<reportVars, tempVars>>

\* A rerun without Execute and without a stored view (lines 122, 270-271).
RerunNoView ==
    /\ pc = "filter"
    /\ "pgd_comp_df_view" \notin DOMAIN session_state
    /\ \E w \in WidgetValues(report) : widgets' = w
    /\ submitted' = FALSE
    /\ UNCHANGED <<session_state, df_view, df_export>>
    /\ UNCHANGED <<pc, csv_dfs, i, data_list, signals, infor_all, sap_df, df_infor,
                   df_merged, df_filled, df_final, report, status>>
    /\ UNCHANGED <<reportVars, tempVars>>

NextFilter == RerunExecute \/ RerunStoredView \/ RerunNoView

SpecFilter == InitFilter /\ [][NextFilter]_vars

(***************************************************************************)
(* Claims about the filter form.                                           *)
(***************************************************************************)
SelectionKeys ==
    {"pgd_comp_selected_status", "pgd_comp_selected_pos", "pgd_comp_result_selections",
     "pgd_comp_mode_val"}

\* The selections the session holds.
StoredSelections(sess) == [k \in SelectionKeys \cap DOMAIN sess |-> sess[k]]

\* The selections as the form returned them.
FormSelections(w) ==
    [k \in SelectionKeys |->
        IF k = "pgd_comp_selected_status" THEN w.selected_status
        ELSE IF k = "pgd_comp_selected_pos" THEN w.selected_pos
        ELSE IF k = "pgd_comp_result_selections" THEN w.result_selections
        ELSE w.mode]

\* A row of the report passes the selections sel: a selection that is empty,
\* or that names every value of a result column, restricts nothing.
Passes(row, sel) ==
    /\ sel["pgd_comp_selected_status"] # {}
          => AsStr(row["Order Status Infor"]) \in sel["pgd_comp_selected_status"]
    /\ sel["pgd_comp_selected_pos"] # {}
          => AsStr(row["PO No.(Full)"]) \in sel["pgd_comp_selected_pos"]
    /\ \A c \in DOMAIN sel["pgd_comp_result_selections"] :
          LET chosen == sel["pgd_comp_result_selections"][c]
          IN  (chosen # {} /\ \E r \in DOMAIN report.rows :
                                 ~IsNull(report.rows[r][c]) /\ AsStr(report.rows[r][c]) \notin chosen)
                 => AsStr(row[c]) \in chosen

\* The rows of the full report that pass the stored selections, in order.
RestrictedReport ==
    [cols |-> report.cols,
     rows |-> SelectSeq(report.rows, LAMBDA row : Passes(row, StoredSelections(session_state)))]

ViewShown == pc = "filter" /\ "pgd_comp_df_view" \in DOMAIN session_state

\* C20, the view: whenever a view is shown, it is the full report restricted
\* by the stored selections, the stored view is that one, and the exported
\* table has the rows of the view.
C20_ViewOfFullReport ==
    ViewShown =>
        /\ df_view = RestrictedReport
        /\ session_state["pgd_comp_df_view"] = df_view
        /\ session_state["pgd_comp_final_df"] = report
        /\ df_export = blank_delay_columns(RestrictedReport)

\* C20, the steps: a rerun without Execute leaves the stored selections as
\* they were, a rerun with Execute stores the selections of the form, and no
\* rerun changes the report.
C20_Step ==
    /\ ~submitted' => StoredSelections(session_state') = StoredSelections(session_state)
    /\ submitted' => StoredSelections(session_state') = FormSelections(widgets')
    /\ report' = report

\* C20: across every sequence of reruns and Execute submissions of the
\* comparison page, the stored filter selections change only when Execute is
\* submitted, the displayed and exported view is the full report restricted
\* by the selections submitted last (never a restriction of an earlier
\* view), and filtering never changes the report.
C20_FilterSessionState == [](C20_ViewOfFullReport) /\ [][C20_Step]_vars

\* A rerun without Execute, after an Execute that selected the status OPEN
\* only: the form now shows other selections, and the view has fewer rows
\* than the report.
C20_Witness ==
    /\ ViewShown
    /\ ~submitted
    /\ session_state["pgd_comp_selected_status"] = {TextOpen}
    /\ FormSelections(widgets) # StoredSelections(session_state)
    /\ Len(df_view.rows) < Len(report.rows)
    /\ df_view.rows # <<>>
    /\ df_export # df_view

====
